---- MODULE Spec2Model ----
(***************************************************************************)
(* Model of bagua's torch_api communication layer                          *)
(* (src/bagua/torch_api/communication.py): the process-wide global state,  *)
(* the rendezvous of NCCL unique ids through the c10d store, the three     *)
(* communicators built from it, and the collective wrappers.               *)
(*                                                                         *)
(* One OS process per rank.  Every process runs init_process_group(); the  *)
(* two calls of it that can block (store.get of a key not yet set, and the *)
(* NCCL communicator constructor, which waits for every rank of the        *)
(* communicator) split it into steps, tracked by pc.                       *)
(***************************************************************************)
EXTENDS Integers, Sequences, FiniteSets, TLC

\* ------------------------------------------------------------------ bounds
\* Largest WORLD_SIZE explored.
MaxW == 4
\* How many times one process may run BaguaGlobalState() (a failed
\* initialization can be retried).
MaxAttempts == 2
\* Longest parameter list of a parameter group handed to FusedOptimizer.
MaxParams == 3
\* Longest tensor list handed to a coalesced collective.
MaxTensors == 2
\* Largest WORLD_SIZE of a job whose collectives are followed step by step.
MaxRanks == 2
MaxGroups == 2

\* Nodes of a job, and children a launcher spawns on its node.
MaxNodes == 2
MaxNproc == 2

VARIABLES
    world_size,        \* env WORLD_SIZE
    local_size,        \* env LOCAL_SIZE
    pc,                \* per process: where it stands inside init_process_group
    _global_state,     \* per process: the module global _global_state
    self,              \* per process: the BaguaGlobalState under construction
    nccl_unique_id,    \* per process: the local nccl_unique_id of the running init_bagua_*_communicator
    dist_initialized,  \* per process: torch.distributed.is_initialized()
    _autotune_server,  \* per process: the module global _autotune_server
    attempt,           \* per process: BaguaGlobalState() constructions started
    generated,         \* per process: unique ids generated so far
    store,             \* the c10d store: key -> bytes
    storeOps,          \* every store.set / store.get performed: its caller, its key, the id returned
    joined,            \* every call of the communicator constructor: its caller and arguments
    lastCall,          \* per process: the last API call, its arguments and its outcome
    job,               \* the collective call every rank of the script makes, once a rank has made it
    host,              \* per process: where its collective call stands, and the communicator it resolved
    tensor_mem,        \* per process: device memory of the tensors passed to the collective
    coalesced_mem,     \* per process: device memory of the flattened buffer
    current_stream,    \* per process: work pending on the caller's current CUDA stream
    comm_stream,       \* per process: work pending on comm.cuda_stream
    event,             \* per process: the event of torch.cuda.current_stream().record_event()
    nccl,              \* the buffers the NCCL kernels launched so far have contributed
    optimizer,         \* FusedOptimizer.optimizer: the wrapped optimizer and its param_groups
    fused_optimizer,   \* the FusedOptimizer instance, once constructed
    flatten_calls,     \* every call of flatten_module_params: the parameters passed
    last_step,         \* the last call of FusedOptimizer.step: what the wrapped step saw, what was returned
    args,              \* launch.py: the parsed command line of the launcher
    processes,         \* launch.py: the Popen objects, in spawning order, each with the env it was given
    children,          \* the operating system's view of the spawned children: running, or exited with a code
    subprocess_file_handles,  \* launch.py: the (stdout, stderr) log files opened, one pair per child
    last_return_code,  \* launch.py: main's last_return_code, read by sigkill_handler
    alive_processes,   \* launch.py: the children the monitoring loop still polls
    main               \* launch.py: where main() stands, or how it ended

\* What the collective wrappers and the device work on.
deviceVars == <<job, host, tensor_mem, coalesced_mem, current_stream, comm_stream,
                event, nccl>>

\* Everything the initialization and the accessors leave alone.
\* What FusedOptimizer works on.
fuseVars == <<optimizer, fused_optimizer, flatten_calls, last_step>>

\* What the launcher works on.
launchVars == <<args, processes, children, subprocess_file_handles, last_return_code,
                alive_processes, main>>

extVars == <<deviceVars, fuseVars, launchVars>>

vars == <<world_size, local_size, pc, _global_state, self, nccl_unique_id,
          dist_initialized, _autotune_server, attempt, generated, store,
          storeOps, joined, lastCall, extVars>>

\* What the initialization and the accessors work on.
initVars == <<world_size, local_size, pc, _global_state, self, nccl_unique_id,
              dist_initialized, _autotune_server, attempt, generated, store,
              storeOps, joined, lastCall>>

\* ------------------------------------------------------------- environment
None == [kind |-> "None"]

Procs == 0 .. (world_size - 1)

get_rank(p) == p
get_world_size == world_size
get_local_size == local_size
get_local_rank(p) == p % local_size

\* The (WORLD_SIZE, LOCAL_SIZE) pairs a job can be started with.
Configs == {c \in (1 .. MaxW) \X (1 .. MaxW) : c[2] <= c[1]}

NoCall == [op |-> "none", outcome |-> "none"]

\* No rank has called a collective yet.
NoJob == [op |-> "none"]

\* The process is not inside a collective wrapper.
NotCalling == [pc |-> "idle", comm |-> None]

\* ------------------------------------------------------------ global state
_get_global_state(p) == _global_state[p]

\* Variant: the guard of init_process_group never sees the state.
is_initialized_never(p) == FALSE

\* Variant: the process group of torch.distributed is looked at instead.
is_initialized_dist(p) == dist_initialized[p]

\* is_initialized(): _global_state is not None
is_initialized(p) == _global_state[p] # None

\* ------------------------------------------------------------- rendezvous
\* Variant: the key names the root only.
RendezvousKeyOfRoot(comm_type, root) == ToString(root) \o "-unique_id"

\* f"{comm_type}-{root}-unique_id"
RendezvousKey(comm_type, root) == comm_type \o "-" \o ToString(root) \o "-unique_id"

\* B.BaguaSingleCommunicatorPy.generate_nccl_unique_id_str(): a fresh str,
\* different from every id generated before by any process.
generate_nccl_unique_id_str(p) == [type |-> "str", text |-> <<p, generated[p]>>]

\* store.set(key, idstr) keeps the utf-8 bytes of the str.
StoreSet(key, idstr) ==
    [k \in DOMAIN store \cup {key} |->
        IF k = key THEN [type |-> "bytes", text |-> idstr.text] ELSE store[k]]

\* Variant: the bytes read from the store are returned undecoded.
DecodeUtf8Missing(b) == b

\* str(idstr, encoding="utf-8")
DecodeUtf8(b) == [type |-> "str", text |-> b.text]

\* gen_nccl_unique_id(comm_type, root, store): enabled when it does not block.
\* `id` is the value returned.
gen_nccl_unique_id(p, comm_type, root, id) ==
    LET key == RendezvousKey(comm_type, root) IN
    IF get_rank(p) = root
    THEN /\ id = generate_nccl_unique_id_str(p)
         /\ generated' = [generated EXCEPT ![p] = @ + 1]
         /\ store' = StoreSet(key, id)
         /\ storeOps' = storeOps \cup {[op |-> "set", comm_type |-> comm_type,
                                         key |-> key, rank |-> p, idstr |-> id]}
    ELSE /\ key \in DOMAIN store
         /\ id = DecodeUtf8(store[key])
         /\ storeOps' = storeOps \cup {[op |-> "get", comm_type |-> comm_type,
                                         key |-> key, rank |-> p, idstr |-> id]}
         /\ UNCHANGED <<generated, store>>

\* The values gen_nccl_unique_id can return to p right now (one or none).
IdsFor(p, comm_type, root) ==
    IF get_rank(p) = root
    THEN {generate_nccl_unique_id_str(p)}
    ELSE IF RendezvousKey(comm_type, root) \in DOMAIN store
         THEN {DecodeUtf8(store[RendezvousKey(comm_type, root)])}
         ELSE {}

\* ----------------------------------------------------------- communicators
\* Variant: every communicator runs on a stream of its own.
BaguaSingleCommunicatorPyOwnStream(rank, nranks, device_id, stream, id) ==
    [kind |-> "comm", rank |-> rank, nranks |-> nranks, device_id |-> device_id,
     cuda_stream |-> <<"Stream", id>>, nccl_unique_id |-> id]

\* B.BaguaSingleCommunicatorPy(rank, nranks, device_id, stream_ptr,
\* nccl_unique_id_str) with comm.cuda_stream = stream set on it.
BaguaSingleCommunicatorPy(rank, nranks, device_id, stream, id) ==
    [kind |-> "comm", rank |-> rank, nranks |-> nranks, device_id |-> device_id,
     cuda_stream |-> stream, nccl_unique_id |-> id]

\* ncclCommInitRank rejects a rank outside 0 .. nranks-1, without waiting.
ValidCommArgs(rank, nranks) == nranks >= 1 /\ rank >= 0 /\ rank < nranks

\* ncclCommInitRank returns once every rank of the communicator has called it.
AllJoined(id, nranks) ==
    \A r \in 0 .. (nranks - 1) : \E j \in joined : j.id = id /\ j.rank = r

\* The constructor is entered by process p with these arguments.
Join(p, by, id, rank, nranks) ==
    joined' = joined \cup {[proc |-> p, by |-> by, id |-> id, rank |-> rank,
                            nranks |-> nranks]}

\* The arguments each init_bagua_*_communicator passes to gen_nccl_unique_id
\* and to the constructor.
\* Variant: leader_rank=1.
InterLeaderRankOne == 0 + 1

\* leader_rank=0 (BaguaGlobalState.__init__)
InterLeaderRank == 0

\* Variant: no early return for the processes that are not leaders.
InterMemberAll(p, leader_rank) == TRUE

\* not (get_rank() % get_local_size() != leader_rank)
InterMember(p, leader_rank) == get_rank(p) % get_local_size = leader_rank

\* rank=get_rank() // get_local_size()
InterRank(p) == get_rank(p) \div get_local_size

\* nranks=get_world_size() // get_local_size()
InterNranks == get_world_size \div get_local_size

\* Variant: every node takes its intra-node id from global rank 0.
IntraRootZero(p) == 0

\* root=get_rank() // get_local_size() * get_local_size()
IntraRoot(p) == (get_rank(p) \div get_local_size) * get_local_size

\* Variant: the global rank is passed as the intra-node rank.
IntraRankGlobal(p) == get_rank(p)

\* rank=get_rank() % get_local_size()
IntraRank(p) == get_rank(p) % get_local_size

\* nranks=get_local_size()
IntraNranks == get_local_size

\* gen_nccl_unique_id("bagua_global_comm", store=store): root=0 by default
GlobalRoot == 0

\* rank=get_rank()
GlobalRank(p) == get_rank(p)

\* Variant: the local size is passed as the size of the global communicator.
GlobalNranksLocal == get_local_size

\* nranks=get_world_size()
GlobalNranks == get_world_size

\* Variant: the intra-node communicator is not set up.
SetupAfterWithoutIntra(setup) == "global_id"

\* BaguaGlobalState.__init__ sets up the inter-node, then the intra-node,
\* then the global communicator.
SetupAfter(setup) ==
    CASE setup = "inter" -> "intra_id"
      [] setup = "intra" -> "global_id"

\* An exception leaves BaguaGlobalState.__init__ and init_process_group:
\* _global_state keeps its value.
Raise(p, error) ==
    /\ pc' = [pc EXCEPT ![p] = "idle"]
    /\ self' = [self EXCEPT ![p] = None]
    /\ nccl_unique_id' = [nccl_unique_id EXCEPT ![p] = None]
    /\ lastCall' = [lastCall EXCEPT ![p] = [op |-> "init_process_group", outcome |-> error]]

\* ------------------------------------------------------------------ actions
\* init_process_group(), up to the first call that can block.
init_process_group(p) ==
    /\ pc[p] = "idle"
    /\ IF is_initialized(p)
       THEN /\ lastCall' = [lastCall EXCEPT ![p] =
                   [op |-> "init_process_group", outcome |-> "RepeatedInitializationError"]]
            /\ UNCHANGED <<pc, _global_state, self, nccl_unique_id, dist_initialized,
                           _autotune_server, attempt, generated, store, storeOps, joined>>
       ELSE /\ attempt[p] < MaxAttempts
            /\ dist_initialized' = [dist_initialized EXCEPT ![p] = TRUE]
            /\ _autotune_server' = [_autotune_server EXCEPT ![p] =
                   IF get_rank(p) = 0 THEN [kind |-> "Process", started |-> attempt[p] + 1] ELSE @]
            /\ attempt' = [attempt EXCEPT ![p] = @ + 1]
            /\ self' = [self EXCEPT ![p] =
                   [kind |-> "BaguaGlobalState",
                    backend |-> <<"BaguaCommBackendPy", get_local_rank(p), attempt[p] + 1>>,
                    stream |-> <<"Stream", p, attempt[p] + 1>>,
                    hyperparameters |-> <<"BaguaHyperparameter", p, attempt[p] + 1>>,
                    hyperparameters_service_client |-> <<"AutotuneClient", p, attempt[p] + 1>>,
                    internode_communicator |-> None,
                    intranode_communicator |-> None,
                    global_communicator |-> None]]
            /\ pc' = [pc EXCEPT ![p] = "inter_id"]
            /\ lastCall' = [lastCall EXCEPT ![p] =
                   [op |-> "init_process_group", outcome |-> "running"]]
            /\ UNCHANGED <<_global_state, nccl_unique_id, generated, store, storeOps, joined>>
    /\ UNCHANGED <<extVars, world_size, local_size>>

\* init_bagua_inter_communicator: the id exchange, the early return of a
\* process that is not a leader, and the entry into the constructor.
init_bagua_inter_communicator(p) ==
    /\ pc[p] = "inter_id"
    /\ \E id \in IdsFor(p, "bagua_inter_comm", InterLeaderRank) :
        /\ gen_nccl_unique_id(p, "bagua_inter_comm", InterLeaderRank, id)
        /\ IF ~InterMember(p, InterLeaderRank)
           THEN /\ self' = [self EXCEPT ![p].internode_communicator = None]
                /\ pc' = [pc EXCEPT ![p] = SetupAfter("inter")]
                /\ UNCHANGED <<nccl_unique_id, joined, lastCall>>
           ELSE IF ~ValidCommArgs(InterRank(p), InterNranks)
           THEN /\ Raise(p, "NcclInvalidArgument")
                /\ Join(p, "init_bagua_inter_communicator", id, InterRank(p), InterNranks)
           ELSE /\ nccl_unique_id' = [nccl_unique_id EXCEPT ![p] = id]
                /\ Join(p, "init_bagua_inter_communicator", id, InterRank(p), InterNranks)
                /\ pc' = [pc EXCEPT ![p] = "inter_comm"]
                /\ UNCHANGED <<self, lastCall>>
    /\ UNCHANGED <<extVars, world_size, local_size, _global_state, dist_initialized,
                   _autotune_server, attempt>>

\* The inter-node constructor returns; self.internode_communicator is set.
init_bagua_inter_communicator_return(p) ==
    /\ pc[p] = "inter_comm"
    /\ AllJoined(nccl_unique_id[p], InterNranks)
    /\ self' = [self EXCEPT ![p].internode_communicator =
           BaguaSingleCommunicatorPy(InterRank(p), InterNranks, get_local_rank(p),
                                     self[p].stream, nccl_unique_id[p])]
    /\ nccl_unique_id' = [nccl_unique_id EXCEPT ![p] = None]
    /\ pc' = [pc EXCEPT ![p] = SetupAfter("inter")]
    /\ UNCHANGED <<extVars, world_size, local_size, _global_state, dist_initialized,
                   _autotune_server, attempt, generated, store, storeOps, joined, lastCall>>

\* init_bagua_intra_communicator: the id exchange and the entry into the constructor.
init_bagua_intra_communicator(p) ==
    /\ pc[p] = "intra_id"
    /\ \E id \in IdsFor(p, "bagua_intra_comm", IntraRoot(p)) :
        /\ gen_nccl_unique_id(p, "bagua_intra_comm", IntraRoot(p), id)
        /\ IF ~ValidCommArgs(IntraRank(p), IntraNranks)
           THEN /\ Raise(p, "NcclInvalidArgument")
                /\ Join(p, "init_bagua_intra_communicator", id, IntraRank(p), IntraNranks)
           ELSE /\ nccl_unique_id' = [nccl_unique_id EXCEPT ![p] = id]
                /\ Join(p, "init_bagua_intra_communicator", id, IntraRank(p), IntraNranks)
                /\ pc' = [pc EXCEPT ![p] = "intra_comm"]
                /\ UNCHANGED <<self, lastCall>>
    /\ UNCHANGED <<extVars, world_size, local_size, _global_state, dist_initialized,
                   _autotune_server, attempt>>

\* The intra-node constructor returns; self.intranode_communicator is set.
init_bagua_intra_communicator_return(p) ==
    /\ pc[p] = "intra_comm"
    /\ AllJoined(nccl_unique_id[p], IntraNranks)
    /\ self' = [self EXCEPT ![p].intranode_communicator =
           BaguaSingleCommunicatorPy(IntraRank(p), IntraNranks, get_local_rank(p),
                                     self[p].stream, nccl_unique_id[p])]
    /\ nccl_unique_id' = [nccl_unique_id EXCEPT ![p] = None]
    /\ pc' = [pc EXCEPT ![p] = SetupAfter("intra")]
    /\ UNCHANGED <<extVars, world_size, local_size, _global_state, dist_initialized,
                   _autotune_server, attempt, generated, store, storeOps, joined, lastCall>>

\* init_bagua_communicator: the id exchange and the entry into the constructor.
init_bagua_communicator(p) ==
    /\ pc[p] = "global_id"
    /\ \E id \in IdsFor(p, "bagua_global_comm", GlobalRoot) :
        /\ gen_nccl_unique_id(p, "bagua_global_comm", GlobalRoot, id)
        /\ IF ~ValidCommArgs(GlobalRank(p), GlobalNranks)
           THEN /\ Raise(p, "NcclInvalidArgument")
                /\ Join(p, "init_bagua_communicator", id, GlobalRank(p), GlobalNranks)
           ELSE /\ nccl_unique_id' = [nccl_unique_id EXCEPT ![p] = id]
                /\ Join(p, "init_bagua_communicator", id, GlobalRank(p), GlobalNranks)
                /\ pc' = [pc EXCEPT ![p] = "global_comm"]
                /\ UNCHANGED <<self, lastCall>>
    /\ UNCHANGED <<extVars, world_size, local_size, _global_state, dist_initialized,
                   _autotune_server, attempt>>

\* The global constructor returns, BaguaGlobalState.__init__ returns, and
\* init_process_group assigns _global_state.
init_bagua_communicator_return(p) ==
    /\ pc[p] = "global_comm"
    /\ AllJoined(nccl_unique_id[p], GlobalNranks)
    /\ _global_state' = [_global_state EXCEPT ![p] =
           [self[p] EXCEPT !.global_communicator =
               BaguaSingleCommunicatorPy(GlobalRank(p), GlobalNranks, get_local_rank(p),
                                         self[p].stream, nccl_unique_id[p])]]
    /\ self' = [self EXCEPT ![p] = None]
    /\ nccl_unique_id' = [nccl_unique_id EXCEPT ![p] = None]
    /\ pc' = [pc EXCEPT ![p] = "idle"]
    /\ lastCall' = [lastCall EXCEPT ![p] = [op |-> "init_process_group", outcome |-> "ok"]]
    /\ UNCHANGED <<extVars, world_size, local_size, dist_initialized, _autotune_server,
                   attempt, generated, store, storeOps, joined>>

\* An exception leaves the first call of init_process_group in a process
\* before its last statement: out of torch.distributed.init_process_group,
\* out of the start of the autotune server, or out of a store access or a
\* constructor call of BaguaGlobalState.__init__.
init_process_group_raises(p) ==
    /\ ~is_initialized(p)
    /\ \/ /\ pc[p] = "idle"
          /\ attempt[p] = 0
          /\ attempt' = [attempt EXCEPT ![p] = @ + 1]
          /\ \/ /\ ~dist_initialized[p]
                /\ lastCall' = [lastCall EXCEPT ![p] =
                       [op |-> "init_process_group", outcome |-> "RuntimeError"]]
                /\ UNCHANGED dist_initialized
             \/ /\ get_rank(p) = 0
                /\ dist_initialized' = [dist_initialized EXCEPT ![p] = TRUE]
                /\ lastCall' = [lastCall EXCEPT ![p] =
                       [op |-> "init_process_group", outcome |-> "OSError"]]
          /\ UNCHANGED <<pc, self, nccl_unique_id>>
       \/ /\ pc[p] # "idle"
          /\ attempt[p] = 1
          /\ Raise(p, "TransportError")
          /\ UNCHANGED <<attempt, dist_initialized>>
    /\ UNCHANGED <<extVars, world_size, local_size, _global_state, _autotune_server,
                   generated, store, storeOps, joined>>

\* ---------------------------------------------------------------- accessors
\* The process is single-threaded: it calls the API only between steps of
\* init_process_group, never during one.
AtCallSite(p) == pc[p] = "idle"

Call(p, record) ==
    /\ AtCallSite(p)
    /\ lastCall' = [lastCall EXCEPT ![p] = record]
    /\ UNCHANGED <<extVars, world_size, local_size, pc, _global_state, self, nccl_unique_id,
                   dist_initialized, _autotune_server, attempt, generated, store,
                   storeOps, joined>>

\* is_initialized() called by the user.
call_is_initialized(p) ==
    Call(p, [op |-> "is_initialized", outcome |-> "ok", value |-> is_initialized(p)])

\* _global_state.<attr>: None has none of the attributes read here.
GetAttr(obj, attr) ==
    IF obj = None
    THEN [outcome |-> "AttributeError", value |-> None]
    ELSE [outcome |-> "ok", value |-> attr]

get_bagua_hyperparameters(p) ==
    LET r == GetAttr(_global_state[p],
                     IF _global_state[p] = None THEN None
                     ELSE _global_state[p].hyperparameters) IN
    Call(p, [op |-> "get_bagua_hyperparameters", outcome |-> r.outcome, value |-> r.value])

get_hyperparameters_service_client(p) ==
    LET r == GetAttr(_global_state[p],
                     IF _global_state[p] = None THEN None
                     ELSE _global_state[p].hyperparameters_service_client) IN
    Call(p, [op |-> "get_hyperparameters_service_client", outcome |-> r.outcome,
             value |-> r.value])

\* ------------------------------------------------------------------ tensors
\* Element values are rationals <<numerator, denominator>> in lowest terms.
RECURSIVE Gcd(_, _)
Gcd(a, b) == IF b = 0 THEN a ELSE Gcd(b, a % b)

Abs(x) == IF x < 0 THEN 0 - x ELSE x

Rat(a, b) == LET g == Gcd(Abs(a), b) IN <<a \div g, b \div g>>

RAdd(x, y) == Rat(x[1] * y[2] + y[1] * x[2], x[2] * y[2])

RDiv(x, n) == Rat(x[1], x[2] * n)

Devices == {"cpu", "cuda:0", "cuda:1"}

Datas == {<<Rat(1, 1)>>, <<Rat(2, 1), Rat(3, 1)>>}

Tensors == [device : Devices, data : Datas]

TensorLists == UNION {[1 .. n -> Tensors] : n \in 1 .. MaxTensors}

numel(t) == Len(t.data)

\* utils.flatten(tensors): one new buffer holding the tensors' elements in
\* input order; the tensors must share one device.
RECURSIVE Concat(_, _)
Concat(tensors, i) ==
    IF i > Len(tensors) THEN <<>> ELSE tensors[i].data \o Concat(tensors, i + 1)

SameDevice(tensors) == \A i \in DOMAIN tensors : tensors[i].device = tensors[1].device

flatten(tensors) == [device |-> tensors[1].device, data |-> Concat(tensors, 1)]

\* How flatten ends: tensors that do not share one device are refused.
flatten_outcome(tensors) == IF SameDevice(tensors) THEN "ok" ELSE "InvalidDeviceError"

\* Elements of tensors 1 .. i-1: where tensor i starts in the coalesced buffer.
RECURSIVE Offset(_, _)
Offset(tensors, i) ==
    IF i <= 1 THEN 0 ELSE Offset(tensors, i - 1) + numel(tensors[i - 1])

\* utils.unflatten(coalesced, tensors): the slice of each tensor, viewed with
\* that tensor's element count.
unflatten(coalesced, tensors) ==
    [i \in DOMAIN tensors |->
        SubSeq(coalesced.data, Offset(tensors, i) + 1, Offset(tensors, i) + numel(tensors[i]))]

\* Variant: every tensor is filled from the start of the coalesced buffer.
CopyBackFromStart(tensors, coalesced) ==
    [i \in DOMAIN tensors |->
        [tensors[i] EXCEPT !.data = SubSeq(coalesced.data, 1, numel(tensors[i]))]]

\* buf.copy_(synced) for every pair of zip(tensors, unflatten(coalesced, tensors)).
CopyBack(tensors, coalesced) ==
    [i \in DOMAIN tensors |-> [tensors[i] EXCEPT !.data = unflatten(coalesced, tensors)[i]]]

\* -------------------------------------------------------------- collectives
Collectives == {"broadcast", "broadcast_coalesced", "allreduce", "allreduce_coalesced"}

\* Variant: the list wrappers skip flatten and hand over their first tensor.
IsCoalescedNever(op) == FALSE

\* The wrappers that flatten their list, run one collective, and copy back.
IsCoalesced(op) == op \in {"broadcast_coalesced", "allreduce_coalesced"}

IsAllreduce(op) == op \in {"allreduce", "allreduce_coalesced"}

\* Variant: only the first tensor of the list is checked.
AssertCudaFirstOnly(tensors) == tensors[1].device # "cpu"

\* assert tensor.device != torch.device("cpu"), for every tensor of the list.
AssertCuda(tensors) == \A i \in DOMAIN tensors : tensors[i].device # "cpu"

\* Variant: the comm argument is ignored.
ResolveCommGlobalOnly(p, comm) ==
    IF _get_global_state(p) = None THEN [kind |-> "AttributeError"]
    ELSE _get_global_state(p).global_communicator

\* if comm is None: comm = _get_global_state().get_global_communicator()
ResolveComm(p, comm) ==
    IF comm # None THEN comm
    ELSE IF _get_global_state(p) = None THEN [kind |-> "AttributeError"]
    ELSE _get_global_state(p).global_communicator

\* What NCCL leaves in a rank's buffer, given every rank's buffer.
RECURSIVE SumRanks(_, _, _)
SumRanks(contrib, r, i) ==
    IF r = 0 THEN contrib[0][i] ELSE RAdd(contrib[r][i], SumRanks(contrib, r - 1, i))

NcclBroadcast(contrib, root) == contrib[root]

NcclAllreduce(contrib, nranks) ==
    [i \in DOMAIN contrib[0] |-> SumRanks(contrib, nranks - 1, i)]

\* Variant: the reduced buffer is left as the sum.
AverageSkipped(data, nranks) == data

\* coalesced /= comm.nranks()
Average(data, nranks) == [i \in DOMAIN data |-> RDiv(data[i], nranks)]

\* The comm values a caller can pass: nothing, or a communicator read from
\* the global state (get_internode_communicator() may itself be None).
CommArgs(p) ==
    {None} \cup
    (IF _global_state[p] = None THEN {}
     ELSE {_global_state[p].internode_communicator,
           _global_state[p].intranode_communicator,
           _global_state[p].global_communicator})

\* One call of a collective wrapper, from its first line to its return or
\* its exception.  `log` lists, in order, what the call did on the streams.
CollectiveRecord(p, op, tensors, root, comm_arg, average) ==
    LET base == [op |-> op, tensors_in |-> tensors, root |-> root,
                 comm_arg |-> comm_arg, average |-> average]
        comm == ResolveComm(p, comm_arg)
        buffer == IF IsCoalesced(op) THEN flatten(tensors) ELSE tensors[1]
        contrib == [r \in 0 .. 0 |-> buffer.data]
        reduced == IF IsAllreduce(op)
                   THEN NcclAllreduce(contrib, comm.nranks)
                   ELSE NcclBroadcast(contrib, root)
        scaled == IF IsAllreduce(op) /\ average
                  THEN Average(reduced, comm.nranks) ELSE reduced
        result == [buffer EXCEPT !.data = scaled]
        order == <<"record_event", "wait_event">>
    IN
    IF ~AssertCuda(tensors)
    THEN base @@ [outcome |-> "AssertionError", comm |-> None,
                  tensors |-> tensors, log |-> <<>>]
    ELSE IF comm.kind = "AttributeError"
    THEN base @@ [outcome |-> "AttributeError", comm |-> None,
                  tensors |-> tensors, log |-> <<>>]
    ELSE IF IsCoalesced(op) /\ flatten_outcome(tensors) # "ok"
    THEN base @@ [outcome |-> flatten_outcome(tensors), comm |-> comm,
                  tensors |-> tensors, log |-> order]
    ELSE base @@ [outcome |-> "ok", comm |-> comm,
                  tensors |-> IF IsCoalesced(op) THEN CopyBack(tensors, result)
                              ELSE <<result>>,
                  log |-> order
                          \o (IF IsCoalesced(op) THEN <<"flatten">> ELSE <<>>)
                          \o <<IF IsAllreduce(op) THEN "allreduce" ELSE "broadcast">>
                          \o (IF IsAllreduce(op) /\ average THEN <<"divide">> ELSE <<>>)
                          \o (IF IsCoalesced(op) THEN <<"copy_">> ELSE <<>>)
                          \o <<"synchronize">>]

\* A communicator of one rank completes its collective with the caller alone.
CompletesAlone(p, comm_arg) ==
    LET comm == ResolveComm(p, comm_arg) IN
    comm.kind = "comm" => comm.nranks = 1

broadcast_coalesced(p) ==
    \E tensors \in TensorLists, root \in Procs, comm \in CommArgs(p) :
        /\ CompletesAlone(p, comm)
        /\ Call(p, CollectiveRecord(p, "broadcast_coalesced", tensors, root, comm, FALSE))

broadcast(p) ==
    \E tensor \in Tensors, root \in Procs, comm \in CommArgs(p) :
        /\ CompletesAlone(p, comm)
        /\ Call(p, CollectiveRecord(p, "broadcast", <<tensor>>, root, comm, FALSE))

allreduce_coalesced(p) ==
    \E tensors \in TensorLists, comm \in CommArgs(p), average \in BOOLEAN :
        /\ CompletesAlone(p, comm)
        /\ Call(p, CollectiveRecord(p, "allreduce_coalesced", tensors, 0, comm, average))

allreduce(p) ==
    \E tensor \in Tensors, comm \in CommArgs(p), average \in BOOLEAN :
        /\ CompletesAlone(p, comm)
        /\ Call(p, CollectiveRecord(p, "allreduce", <<tensor>>, 0, comm, average))

\* ------------------------------------------------ collectives, step by step
\* The same four wrappers in a job of several ranks.  The host part of a
\* wrapper only enqueues work and then blocks in torch.cuda.synchronize();
\* the device runs each stream in order, and an NCCL kernel finishes once
\* every rank of its communicator has launched it.

\* What a caller writes for `average`: nothing, True or False.
AverageArgs == {"omitted", "True", "False"}

\* What a caller writes for `comm`: nothing, or one of the three
\* communicators of the global state.
CommArgNames == {"omitted", "internode", "intranode", "global"}

\* average: bool = True
DefaultAverage == TRUE

\* The value the parameter `average` has inside allreduce / allreduce_coalesced.
EffectiveAverage(arg) == IF arg = "omitted" THEN DefaultAverage ELSE arg = "True"

\* comm: B.BaguaSingleCommunicatorPy = None
CommArg(p, name) ==
    CASE name = "omitted" -> None
      [] name = "internode" -> _global_state[p].internode_communicator
      [] name = "intranode" -> _global_state[p].intranode_communicator
      [] name = "global" -> _global_state[p].global_communicator

\* Element counts of the tensors of a job.
ElementCounts == {1, 2}

\* The element counts of the tensors a wrapper can be handed.
Shapes(op) ==
    IF op \in {"broadcast_coalesced", "allreduce_coalesced"}
    THEN UNION {[1 .. n -> ElementCounts] : n \in 1 .. MaxTensors}
    ELSE [1 .. 1 -> ElementCounts]

\* The calls a script can make of the wrapper `op`.
JobsOf(op) ==
    {[op |-> op, shape |-> sh, root |-> r, average |-> a, comm |-> c] :
        sh \in Shapes(op),
        r \in (IF op \in {"broadcast", "broadcast_coalesced"} THEN Procs ELSE {0}),
        a \in (IF op \in {"allreduce", "allreduce_coalesced"} THEN AverageArgs ELSE {"False"}),
        c \in CommArgNames}

RECURSIVE ShapeOffset(_, _)
ShapeOffset(shape, i) == IF i = 1 THEN 0 ELSE ShapeOffset(shape, i - 1) + shape[i - 1]

\* The device a process computes on.
DeviceOf(p) == "cuda:" \o ToString(get_local_rank(p))

\* What the compute kernels of rank p leave in its tensors: element e of
\* the list holds e + 1 + 2 * rank (torch.arange(n) + 1 + 2 * rank).
ProducedData(p, shape) ==
    [i \in DOMAIN shape |->
        [e \in 1 .. shape[i] |-> Rat(ShapeOffset(shape, i) + e + 2 * get_rank(p), 1)]]

\* The memory of the tensors before those kernels have run.
StaleTensors(p, shape) ==
    [i \in DOMAIN shape |->
        [device |-> DeviceOf(p), data |-> [e \in 1 .. shape[i] |-> Rat(0, 1)]]]

\* Variant: the coalesced buffer is never copied back into the tensors.
EnqueuedWorkNoCopy(op, root, average, nranks) ==
    LET on == IF IsCoalesced(op) THEN "coalesced" ELSE "tensor" IN
    (IF IsCoalesced(op) THEN <<[kind |-> "flatten"]>> ELSE <<>>)
    \o <<[kind |-> IF IsAllreduce(op) THEN "allreduce" ELSE "broadcast",
          on |-> on, root |-> root, launched |-> FALSE]>>
    \o (IF IsAllreduce(op) /\ EffectiveAverage(average)
        THEN <<[kind |-> "divide", on |-> on, by |-> nranks]>> ELSE <<>>)

\* Variant: the buffer is copied back before the collective has run on it.
EnqueuedWorkCopyFirst(op, root, average, nranks) ==
    LET on == IF IsCoalesced(op) THEN "coalesced" ELSE "tensor" IN
    (IF IsCoalesced(op) THEN <<[kind |-> "flatten"], [kind |-> "copy_"]>> ELSE <<>>)
    \o <<[kind |-> IF IsAllreduce(op) THEN "allreduce" ELSE "broadcast",
          on |-> on, root |-> root, launched |-> FALSE]>>
    \o (IF IsAllreduce(op) /\ EffectiveAverage(average)
        THEN <<[kind |-> "divide", on |-> on, by |-> nranks]>> ELSE <<>>)

\* Everything a wrapper enqueues under `with torch.cuda.stream(comm.cuda_stream)`.
EnqueuedWork(op, root, average, nranks) ==
    LET on == IF IsCoalesced(op) THEN "coalesced" ELSE "tensor" IN
    (IF IsCoalesced(op) THEN <<[kind |-> "flatten"]>> ELSE <<>>)
    \o <<[kind |-> IF IsAllreduce(op) THEN "allreduce" ELSE "broadcast",
          on |-> on, root |-> root, launched |-> FALSE]>>
    \o (IF IsAllreduce(op) /\ EffectiveAverage(average)
        THEN <<[kind |-> "divide", on |-> on, by |-> nranks]>> ELSE <<>>)
    \o (IF IsCoalesced(op) THEN <<[kind |-> "copy_"]>> ELSE <<>>)

\* Variant: the communicator's stream is not made to wait for the event.
CommStreamWorkNoWait(op, root, average, nranks) ==
    EnqueuedWork(op, root, average, nranks)

\* comm.cuda_stream.wait_event(event), then the work of the wrapper.
CommStreamWork(op, root, average, nranks) ==
    <<[kind |-> "wait_event"]>> \o EnqueuedWork(op, root, average, nranks)

\* Variant: the average is taken over the whole job.
DivisorWorldSize(comm) == get_world_size

\* comm.nranks() of `coalesced /= comm.nranks()` and `tensor /= comm.nranks()`
Divisor(comm) == comm.nranks

\* The host part of a wrapper, from its first line to torch.cuda.synchronize().
\* The compute kernels that produce the tensors are still pending on the
\* current stream when the wrapper is called.
Issue(p, j) ==
    LET comm == ResolveComm(p, CommArg(p, j.comm))
        tensors == StaleTensors(p, j.shape)
    IN
    /\ AtCallSite(p)
    /\ is_initialized(p)
    /\ host[p].pc = "idle"
    /\ j.comm = "omitted" \/ CommArg(p, j.comm) # None
    /\ j.root < comm.nranks
    /\ job' = j
    /\ tensor_mem' = [tensor_mem EXCEPT ![p] = tensors]
    /\ IF ~AssertCuda(tensors)
       THEN /\ host' = [host EXCEPT ![p] = [pc |-> "AssertionError", comm |-> None]]
            /\ current_stream' = [current_stream EXCEPT ![p] =
                   <<[kind |-> "kernel", out |-> ProducedData(p, j.shape)]>>]
            /\ UNCHANGED <<comm_stream, event>>
       ELSE /\ current_stream' = [current_stream EXCEPT ![p] =
                   <<[kind |-> "kernel", out |-> ProducedData(p, j.shape)],
                     [kind |-> "record_event"]>>]
            /\ event' = [event EXCEPT ![p] = "recorded"]
            /\ IF IsCoalesced(j.op) /\ flatten_outcome(tensors) # "ok"
               THEN /\ comm_stream' = [comm_stream EXCEPT ![p] = <<[kind |-> "wait_event"]>>]
                    /\ host' = [host EXCEPT ![p] =
                           [pc |-> flatten_outcome(tensors), comm |-> comm]]
               ELSE /\ comm_stream' = [comm_stream EXCEPT ![p] =
                           CommStreamWork(j.op, j.root, j.average, Divisor(comm))]
                    /\ host' = [host EXCEPT ![p] = [pc |-> "synchronize", comm |-> comm]]
    /\ UNCHANGED <<initVars, fuseVars, launchVars, coalesced_mem, nccl>>

\* Every rank of a script makes the same call.
Candidates(op) == IF job = NoJob THEN JobsOf(op) ELSE {j \in {job} : j.op = op}

broadcast_coalesced_issue(p) ==
    \E j \in Candidates("broadcast_coalesced") : Issue(p, j)

broadcast_issue(p) ==
    \E j \in Candidates("broadcast") : Issue(p, j)

allreduce_coalesced_issue(p) ==
    \E j \in Candidates("allreduce_coalesced") : Issue(p, j)

allreduce_issue(p) ==
    \E j \in Candidates("allreduce") : Issue(p, j)

\* The device runs the next item of the current stream: the kernels that
\* produce the tensors, or the event recorded behind them.
current_stream_run(p) ==
    /\ current_stream[p] # <<>>
    /\ current_stream' = [current_stream EXCEPT ![p] = Tail(@)]
    /\ IF Head(current_stream[p]).kind = "kernel"
       THEN /\ tensor_mem' = [tensor_mem EXCEPT ![p] =
                   [i \in DOMAIN @ |-> [@[i] EXCEPT !.data = Head(current_stream[p]).out[i]]]]
            /\ UNCHANGED event
       ELSE /\ event' = [event EXCEPT ![p] = "complete"]
            /\ UNCHANGED tensor_mem
    /\ UNCHANGED <<initVars, fuseVars, launchVars, job, host, coalesced_mem, comm_stream, nccl>>

\* The next item of the communicator's stream is of this kind.
CommStreamHead(p, kinds) ==
    /\ comm_stream[p] # <<>>
    /\ Head(comm_stream[p]).kind \in kinds

\* The item the communicator's stream waits at.
Item(p) == Head(comm_stream[p])

\* The wait passes once the event has completed.
wait_event_run(p) ==
    /\ CommStreamHead(p, {"wait_event"})
    /\ event[p] = "complete"
    /\ comm_stream' = [comm_stream EXCEPT ![p] = Tail(@)]
    /\ UNCHANGED <<initVars, fuseVars, launchVars, job, host, tensor_mem, coalesced_mem, current_stream, event, nccl>>

\* coalesced = flatten(tensors)
flatten_run(p) ==
    /\ CommStreamHead(p, {"flatten"})
    /\ coalesced_mem' = [coalesced_mem EXCEPT ![p] = flatten(tensor_mem[p])]
    /\ comm_stream' = [comm_stream EXCEPT ![p] = Tail(@)]
    /\ UNCHANGED <<initVars, fuseVars, launchVars, job, host, tensor_mem, current_stream, event, nccl>>

\* The buffer handed to the collective: BaguaTensorPy(ptr=...data_ptr(), ...).
Buffer(p, on) == IF on = "coalesced" THEN coalesced_mem[p] ELSE tensor_mem[p][1]

SetBuffer(p, on, data) ==
    IF on = "coalesced"
    THEN /\ coalesced_mem' = [coalesced_mem EXCEPT ![p].data = data]
         /\ UNCHANGED tensor_mem
    ELSE /\ tensor_mem' = [tensor_mem EXCEPT ![p][1].data = data]
         /\ UNCHANGED coalesced_mem

\* The NCCL kernel of comm.broadcast / comm.allreduce starts: it reads the buffer.
nccl_launch(p) ==
    /\ CommStreamHead(p, {"broadcast", "allreduce"})
    /\ ~Item(p).launched
    /\ nccl' = nccl \cup {[id |-> host[p].comm.nccl_unique_id, rank |-> host[p].comm.rank,
                           data |-> Buffer(p, Item(p).on).data]}
    /\ comm_stream' = [comm_stream EXCEPT ![p][1].launched = TRUE]
    /\ UNCHANGED <<initVars, fuseVars, launchVars, job, host, tensor_mem, coalesced_mem, current_stream, event>>

\* Every rank of the communicator has launched the kernel.
AllLaunched(id, nranks) ==
    \A r \in 0 .. (nranks - 1) : \E c \in nccl : c.id = id /\ c.rank = r

Contributions(id, nranks) ==
    [r \in 0 .. (nranks - 1) |-> (CHOOSE c \in nccl : c.id = id /\ c.rank = r).data]

\* The NCCL kernel ends: it has written the buffer.
nccl_finish(p) ==
    LET comm == host[p].comm
        contrib == Contributions(comm.nccl_unique_id, comm.nranks)
    IN
    /\ CommStreamHead(p, {"broadcast", "allreduce"})
    /\ Item(p).launched
    /\ AllLaunched(comm.nccl_unique_id, comm.nranks)
    /\ SetBuffer(p, Item(p).on,
                 IF Item(p).kind = "allreduce" THEN NcclAllreduce(contrib, comm.nranks)
                 ELSE NcclBroadcast(contrib, Item(p).root))
    /\ comm_stream' = [comm_stream EXCEPT ![p] = Tail(@)]
    /\ UNCHANGED <<initVars, fuseVars, launchVars, job, host, current_stream, event, nccl>>

\* coalesced /= comm.nranks(), tensor /= comm.nranks()
divide_run(p) ==
    /\ CommStreamHead(p, {"divide"})
    /\ SetBuffer(p, Item(p).on, Average(Buffer(p, Item(p).on).data, Item(p).by))
    /\ comm_stream' = [comm_stream EXCEPT ![p] = Tail(@)]
    /\ UNCHANGED <<initVars, fuseVars, launchVars, job, host, current_stream, event, nccl>>

\* for buf, synced in zip(tensors, unflatten(coalesced, tensors)): buf.copy_(synced)
copy_run(p) ==
    /\ CommStreamHead(p, {"copy_"})
    /\ tensor_mem' = [tensor_mem EXCEPT ![p] = CopyBack(@, coalesced_mem[p])]
    /\ comm_stream' = [comm_stream EXCEPT ![p] = Tail(@)]
    /\ UNCHANGED <<initVars, fuseVars, launchVars, job, host, coalesced_mem, current_stream, event, nccl>>

\* Variant: only the caller's current stream is waited for.
DeviceIdleCurrentOnly(p) == current_stream[p] = <<>>

\* torch.cuda.synchronize() returns: no stream of the device has work left.
DeviceIdle(p) == current_stream[p] = <<>> /\ comm_stream[p] = <<>>

\* torch.cuda.synchronize() returns, and the wrapper with it.
synchronize_return(p) ==
    /\ host[p].pc = "synchronize"
    /\ DeviceIdle(p)
    /\ host' = [host EXCEPT ![p].pc = "returned"]
    /\ UNCHANGED <<initVars, fuseVars, launchVars, job, tensor_mem, coalesced_mem, current_stream, comm_stream,
                   event, nccl>>

\* ---------------------------------------------------------- fused optimizer
\* src/bagua/torch_api/fuse_optimizer.py.  A parameter is a record of what
\* the grouping reads: the allocation of its data, the offsets of its data
\* and of its gradient in their allocations, its element count, and its
\* bagua_tensor if it has one.  `ids` names the parameters of the optimizer
\* a parameter stands for: itself, or the members of a fused group.

\* allocate_size_a: a.bagua_tensor.num_elem_allocated() if
\* hasattr(a, "bagua_tensor") else a.numel()
allocate_size(a) ==
    IF a.bagua_tensor # None THEN a.bagua_tensor.num_elem_allocated ELSE a.numel

\* Variant: only the data offsets are compared.
is_contiguous_param_data_only(a, b) ==
    \/ a.data_offset = b.data_offset + allocate_size(b)
    \/ b.data_offset = a.data_offset + allocate_size(a)

\* is_contiguous_param(a, b)
is_contiguous_param(a, b) ==
    \/ /\ a.data_offset = b.data_offset + allocate_size(b)
       /\ a.grad_offset = b.grad_offset + allocate_size(b)
    \/ /\ b.data_offset = a.data_offset + allocate_size(a)
       /\ b.grad_offset = a.grad_offset + allocate_size(a)

RECURSIVE SumAllocated(_, _)
SumAllocated(params, k) ==
    IF k = 0 THEN 0 ELSE SumAllocated(params, k - 1) + allocate_size(params[k])

RECURSIVE ConcatIds(_, _)
ConcatIds(params, k) ==
    IF k = 0 THEN <<>> ELSE ConcatIds(params, k - 1) \o params[k].ids

\* collocate_params(params): one parameter that views the whole run.
collocate_params(params) ==
    [ids |-> ConcatIds(params, Len(params)),
     storage |-> params[1].storage,
     data_offset |-> params[1].data_offset,
     grad_offset |-> params[1].grad_offset,
     numel |-> SumAllocated(params, Len(params)),
     bagua_tensor |-> None]

\* Variant: the list is scanned in its given order.
unsorted(params) == params

\* Variant: of two parameters at one offset, the later one comes first.
RECURSIVE sorted_later_first(_)
sorted_later_first(params) ==
    IF Len(params) <= 1 THEN params
    ELSE LET front == sorted_later_first(SubSeq(params, 1, Len(params) - 1))
             last == params[Len(params)]
             keep == Cardinality({k \in DOMAIN front :
                                    front[k].data_offset < last.data_offset})
         IN SubSeq(front, 1, keep) \o <<last>> \o SubSeq(front, keep + 1, Len(front))

\* sorted(params, key=lambda x: x.storage_offset()): stable, ascending.
RECURSIVE sorted(_)
sorted(params) ==
    IF Len(params) <= 1 THEN params
    ELSE LET front == sorted(SubSeq(params, 1, Len(params) - 1))
             last == params[Len(params)]
             keep == Cardinality({k \in DOMAIN front :
                                    front[k].data_offset <= last.data_offset})
         IN SubSeq(front, 1, keep) \o <<last>> \o SubSeq(front, keep + 1, Len(front))

\* The loop of reorder_params over sorted_params[k ..], and what follows it.
RECURSIVE ScanParams(_, _, _, _)
ScanParams(sorted_params, k, grouped, tmp_params) ==
    IF k > Len(sorted_params)
    THEN IF Len(tmp_params) > 0
         THEN Append(grouped, collocate_params(tmp_params))
         ELSE grouped
    ELSE LET p == sorted_params[k] IN
         IF Len(tmp_params) > 0 /\ ~is_contiguous_param(p, tmp_params[Len(tmp_params)])
         THEN ScanParams(sorted_params, k + 1,
                         Append(grouped, collocate_params(tmp_params)), <<p>>)
         ELSE ScanParams(sorted_params, k + 1, grouped, Append(tmp_params, p))

\* reorder_params(params)
reorder_params(params) == ScanParams(sorted(params), 1, <<>>, <<>>)

\* Variant: a new allocation's list is put before the lists already there.
RECURSIVE group_params_newest_first(_)
group_params_newest_first(params) ==
    IF params = <<>> THEN <<>>
    ELSE LET grouped_params == group_params_newest_first(SubSeq(params, 1, Len(params) - 1))
             p == params[Len(params)]
             at == {k \in DOMAIN grouped_params : grouped_params[k].key = p.storage}
         IN IF at = {}
            THEN <<[key |-> p.storage, l |-> <<p>>]>> \o grouped_params
            ELSE [k \in DOMAIN grouped_params |->
                    IF k \in at
                    THEN [grouped_params[k] EXCEPT !.l = Append(@, p)]
                    ELSE grouped_params[k]]

\* group_params_by_storage(params): the dict, as its items in insertion order.
RECURSIVE group_params_by_storage(_)
group_params_by_storage(params) ==
    IF params = <<>> THEN <<>>
    ELSE LET grouped_params == group_params_by_storage(SubSeq(params, 1, Len(params) - 1))
             p == params[Len(params)]
             weight_storage == p.storage
             at == {k \in DOMAIN grouped_params : grouped_params[k].key = weight_storage}
         IN IF at = {}
            THEN Append(grouped_params, [key |-> weight_storage, l |-> <<p>>])
            ELSE [k \in DOMAIN grouped_params |->
                    IF k \in at
                    THEN [grouped_params[k] EXCEPT !.l = Append(@, p)]
                    ELSE grouped_params[k]]

\* fused_params of step: reorder_params of every storage group, in order.
RECURSIVE ExtendAll(_, _)
ExtendAll(grouped_params, k) ==
    IF k = 0 THEN <<>>
    ELSE ExtendAll(grouped_params, k - 1) \o reorder_params(grouped_params[k].l)

\* Variant: the list is started anew for every allocation.
fused_params_of_last_storage(params) ==
    LET grouped_params == group_params_by_storage(params) IN
    IF grouped_params = <<>> THEN <<>>
    ELSE reorder_params(grouped_params[Len(grouped_params)].l)

fused_params(params) ==
    LET grouped_params == group_params_by_storage(params) IN
    ExtendAll(grouped_params, Len(grouped_params))

\* No step has been called.
NoStep == [op |-> "none"]

\* The closure argument of step: omitted, or a callable that returns the loss.
Closures == {None, [kind |-> "closure"]}

\* [param for group in self.optimizer.param_groups for param in group["params"]]
RECURSIVE AllParams(_, _)
AllParams(param_groups, g) ==
    IF g = 0 THEN <<>> ELSE AllParams(param_groups, g - 1) \o param_groups[g].params

\* Variant: half precision parameters are put with the single precision ones.
f32_params_and_half(param_groups) ==
    SelectSeq(AllParams(param_groups, Len(param_groups)),
              LAMBDA param : param.type \in {"torch.cuda.FloatTensor", "torch.cuda.HalfTensor"})

\* f32_params of __init__
f32_params(param_groups) ==
    SelectSeq(AllParams(param_groups, Len(param_groups)),
              LAMBDA param : param.type = "torch.cuda.FloatTensor")

\* f16_params of __init__
f16_params(param_groups) ==
    SelectSeq(AllParams(param_groups, Len(param_groups)),
              LAMBDA param : param.type = "torch.cuda.HalfTensor")

\* Where flatten_module_params puts the k-th parameter of its list: the
\* parameters lie one after the other in one new allocation, and so do
\* their gradients.
RECURSIVE SumNumel(_, _)
SumNumel(params, k) ==
    IF k = 0 THEN 0 ELSE SumNumel(params, k - 1) + params[k].numel

flatten_module_params(params, k) ==
    [params[k] EXCEPT !.storage = "flat:" \o params[k].type,
                      !.data_offset = SumNumel(params, k - 1),
                      !.grad_offset = SumNumel(params, k - 1)]

\* A parameter after the calls of flatten_module_params on the two lists.
Relocate(param, f32, f16) ==
    IF \E k \in DOMAIN f32 : f32[k].ids = param.ids
    THEN flatten_module_params(f32, CHOOSE k \in DOMAIN f32 : f32[k].ids = param.ids)
    ELSE IF \E k \in DOMAIN f16 : f16[k].ids = param.ids
    THEN flatten_module_params(f16, CHOOSE k \in DOMAIN f16 : f16[k].ids = param.ids)
    ELSE param

\* if do_flatten:
do_flatten_branch(do_flatten) == do_flatten

\* FusedOptimizer.__init__(optimizer, do_flatten)
FusedOptimizer(do_flatten) ==
    /\ fused_optimizer = None
    /\ optimizer.param_groups # <<>>
    /\ fused_optimizer' = [do_flatten |-> do_flatten]
    /\ IF do_flatten_branch(do_flatten)
       THEN \A f32 \in {f32_params(optimizer.param_groups)},
               f16 \in {f16_params(optimizer.param_groups)} :
            /\ flatten_calls' = flatten_calls \o
                   <<[params_list |-> f32, align_bytes |-> 1, by |-> "__init__"],
                     [params_list |-> f16, align_bytes |-> 1, by |-> "__init__"]>>
            /\ optimizer' = [optimizer EXCEPT !.param_groups =
                   [g \in DOMAIN optimizer.param_groups |->
                       [optimizer.param_groups[g] EXCEPT !.params =
                           [k \in DOMAIN @ |-> Relocate(@[k], f32, f16)]]]]
       ELSE UNCHANGED <<optimizer, flatten_calls>>
    /\ UNCHANGED <<initVars, deviceVars, launchVars, last_step>>

\* Variant: the wrapped optimizer steps over the lists as they were.
StepSeesOld(old_groups, new_groups) == old_groups

\* self.optimizer.step runs after the loop over the groups has ended.
StepSees(old_groups, new_groups) == new_groups

\* return self.optimizer.step(closure)
Returns(loss) == loss

\* FusedOptimizer.step(closure): the wrapped optimizer's step evaluates the
\* closure, if there is one, and returns its loss.
step ==
    /\ fused_optimizer # None
    /\ \E closure \in Closures :
       \A new_groups \in {[g \in DOMAIN optimizer.param_groups |->
               [optimizer.param_groups[g] EXCEPT !.params = fused_params(@)]]} :
       \A loss \in {IF closure = None THEN None ELSE [kind |-> "loss"]} :
           /\ optimizer' = [optimizer EXCEPT !.param_groups = new_groups]
           /\ last_step' = [op |-> "step",
                            closure |-> closure,
                            param_groups |-> StepSees(optimizer.param_groups, new_groups),
                            loss |-> loss,
                            returned |-> Returns(loss)]
    /\ UNCHANGED <<initVars, deviceVars, launchVars, fused_optimizer, flatten_calls>>

\* The reverse of a list.
RECURSIVE Reversed(_)
Reversed(l) == IF l = <<>> THEN <<>> ELSE Append(Reversed(Tail(l)), Head(l))

\* Between two steps the training script assigns a parameter group's
\* list: here, the list it holds in the opposite order.
reassign(g) ==
    /\ fused_optimizer # None
    /\ last_step # NoStep
    /\ g \in DOMAIN optimizer.param_groups
    /\ Len(optimizer.param_groups[g].params) > 1
    /\ optimizer' = [optimizer EXCEPT !.param_groups[g].params = Reversed(@)]
    /\ UNCHANGED <<initVars, deviceVars, launchVars, fused_optimizer, flatten_calls, last_step>>

\* ----------------------------------------------------------------- launcher
\* str(n) of an int that is not negative.
str(n) == ToString(n)

\* The operating system's view of a child.
Running == [state |-> "running"]

Exited(code) == [state |-> "exited", code |-> code]

\* The exit statuses a training script ends with by itself.
ExitCodes == {0, 1, 2}

\* An int where None may stand as well: Popen.returncode, last_return_code.
ReturnCode(code) == [kind |-> "int", value |-> code]

\* The launcher has not been run.
NoLauncher == [pc |-> "none", returncode |-> None]

\* dist_world_size = args.nproc_per_node * args.nnodes
dist_world_size(a) == a.nproc_per_node * a.nnodes

\* Variant: the ranks of a node start at nnodes * node_rank.
dist_rank_by_nnodes(a, local_rank) == a.nnodes * a.node_rank + local_rank

\* dist_rank = args.nproc_per_node * args.node_rank + local_rank
dist_rank(a, local_rank) == a.nproc_per_node * a.node_rank + local_rank

\* What main has put into current_env when it spawns the child local_rank.
current_env(a, local_rank) ==
    [WORLD_SIZE |-> str(dist_world_size(a)),
     RANK |-> str(dist_rank(a, local_rank)),
     LOCAL_RANK |-> str(local_rank),
     LOCAL_SIZE |-> str(a.nproc_per_node)]

\* One iteration of `for local_rank in range(0, args.nproc_per_node)`: the
\* environment is set, the log files are opened if --logdir is given, the
\* handlers are installed and the child is spawned.  After the last one,
\* main enters the try block: alive_processes = set(processes).
Popen ==
    /\ main.pc = "spawn"
    /\ LET local_rank == Len(processes) IN
       /\ processes' = Append(processes, [env |-> current_env(args, local_rank),
                                          returncode |-> None,
                                          kill_called |-> FALSE])
       /\ children' = Append(children, Running)
       /\ subprocess_file_handles' =
              IF args.logdir THEN Append(subprocess_file_handles, <<"open", "open">>)
              ELSE subprocess_file_handles
       /\ IF local_rank + 1 = args.nproc_per_node
          THEN /\ main' = [pc |-> "monitor", returncode |-> None]
               /\ alive_processes' = 1 .. args.nproc_per_node
          ELSE UNCHANGED <<main, alive_processes>>
    /\ UNCHANGED <<initVars, deviceVars, fuseVars, args, last_return_code>>

\* A running child ends by itself.
child_exit(i) ==
    /\ children[i] = Running
    /\ \E code \in ExitCodes : children' = [children EXCEPT ![i] = Exited(code)]
    /\ UNCHANGED <<initVars, deviceVars, fuseVars, args, processes, subprocess_file_handles,
                   last_return_code, alive_processes, main>>

\* process.poll(): None while the child runs, its return code afterwards.
poll(i) == IF children[i] = Running THEN None ELSE ReturnCode(children[i].code)

\* Popen objects after poll() was called on those of `polled`.
Polled(procs, polled) ==
    [i \in DOMAIN procs |->
        IF i \in polled THEN [procs[i] EXCEPT !.returncode = poll(i)] ELSE procs[i]]

\* `for process in processes: process.kill()` of sigkill_handler, on the
\* Popen objects and on the children: a running child dies of SIGKILL.
kill(procs) == [i \in DOMAIN procs |-> [procs[i] EXCEPT !.kill_called = TRUE]]

Killed(ch) == [i \in DOMAIN ch |-> IF ch[i] = Running THEN Exited(-9) ELSE ch[i]]

\* Variant: the handler does not see the return code main has stored.
sigkill_handler_exits(return_code) == [pc |-> "SystemExit", returncode |-> ReturnCode(1)]

\* How sigkill_handler ends after the kills: CalledProcessError with
\* last_return_code if it is not None, sys.exit(1) otherwise.
sigkill_handler(return_code) ==
    IF return_code # None
    THEN [pc |-> "CalledProcessError", returncode |-> return_code]
    ELSE [pc |-> "SystemExit", returncode |-> ReturnCode(1)]

\* The finally block of main: every handle of subprocess_file_handles is closed.
close(handles) == [k \in DOMAIN handles |-> <<"closed", "closed">>]

\* One pass of `while len(alive_processes)`.  The set is walked in some
\* order.  The first child found to have ended with a return code other
\* than 0 ends the pass: last_return_code is set and sigkill_handler is
\* called, which does not come back; the exception leaves main through the
\* finally block.  Otherwise the children that ended with 0 leave
\* alive_processes, and if none is left main leaves the loop and returns
\* through the finally block.
monitor ==
    /\ main.pc = "monitor"
    /\ alive_processes # {}
    /\ LET failed == {i \in alive_processes : poll(i) # None /\ poll(i) # ReturnCode(0)}
           finished_processes == {i \in alive_processes : poll(i) = ReturnCode(0)}
       IN
       IF failed # {}
       THEN \E process \in failed, before \in SUBSET finished_processes :
               /\ last_return_code' = poll(process)
               /\ processes' = kill(Polled(processes, before \cup {process}))
               /\ children' = Killed(children)
               /\ main' = sigkill_handler(poll(process))
               /\ subprocess_file_handles' = close(subprocess_file_handles)
               /\ UNCHANGED alive_processes
       ELSE /\ processes' = Polled(processes, finished_processes)
            /\ alive_processes' = alive_processes \ finished_processes
            /\ IF alive_processes \ finished_processes = {}
               THEN /\ main' = [pc |-> "returned", returncode |-> None]
                    /\ subprocess_file_handles' = close(subprocess_file_handles)
               ELSE UNCHANGED <<main, subprocess_file_handles>>
            /\ UNCHANGED <<children, last_return_code>>
    /\ UNCHANGED <<initVars, deviceVars, fuseVars, args>>

\* sig_names = {2: "SIGINT", 15: "SIGTERM"}
sig_names == {2, 15}

\* SIGINT or SIGTERM reaches the launcher once the handler is installed,
\* which the first iteration of the spawning loop does: sigkill_handler
\* runs.  Inside the try block the finally block closes the log files.
signal(signum) ==
    /\ main.pc \in {"spawn", "monitor"}
    /\ processes # <<>>
    /\ processes' = kill(processes)
    /\ children' = Killed(children)
    /\ main' = sigkill_handler(last_return_code)
    /\ subprocess_file_handles' =
           IF main.pc = "monitor" THEN close(subprocess_file_handles)
           ELSE subprocess_file_handles
    /\ UNCHANGED <<initVars, deviceVars, fuseVars, args, last_return_code, alive_processes>>

\* ------------------------------------------------------------ specification
\* The module has just been imported in every process of a job.
InitProcesses ==
    /\ \E c \in Configs : world_size = c[1] /\ local_size = c[2]
    /\ pc = [p \in Procs |-> "idle"]
    /\ _global_state = [p \in Procs |-> None]
    /\ self = [p \in Procs |-> None]
    /\ nccl_unique_id = [p \in Procs |-> None]
    /\ dist_initialized = [p \in Procs |-> FALSE]
    /\ _autotune_server = [p \in Procs |-> None]
    /\ attempt = [p \in Procs |-> 0]
    /\ generated = [p \in Procs |-> 0]
    /\ store = <<>>
    /\ storeOps = {}
    /\ joined = {}
    /\ lastCall = [p \in Procs |-> NoCall]

\* No collective has been called, and the devices are idle.
InitDevices ==
    /\ job = NoJob
    /\ host = [p \in Procs |-> NotCalling]
    /\ tensor_mem = [p \in Procs |-> <<>>]
    /\ coalesced_mem = [p \in Procs |-> None]
    /\ current_stream = [p \in Procs |-> <<>>]
    /\ comm_stream = [p \in Procs |-> <<>>]
    /\ event = [p \in Procs |-> "none"]
    /\ nccl = {}

\* No optimizer has been wrapped.
\* No launcher is part of the run.
InitLauncher ==
    /\ args = None
    /\ processes = <<>>
    /\ children = <<>>
    /\ subprocess_file_handles = <<>>
    /\ last_return_code = None
    /\ alive_processes = {}
    /\ main = NoLauncher

InitOptimizer ==
    /\ optimizer = [param_groups |-> <<>>]
    /\ fused_optimizer = None
    /\ flatten_calls = <<>>
    /\ last_step = NoStep

Init == InitProcesses /\ InitDevices /\ InitOptimizer /\ InitLauncher

\* The steps of init_process_group, in every process of the job.
Next ==
    \/ \E p \in Procs : init_process_group(p)
    \/ \E p \in Procs : init_bagua_inter_communicator(p)
    \/ \E p \in Procs : init_bagua_inter_communicator_return(p)
    \/ \E p \in Procs : init_bagua_intra_communicator(p)
    \/ \E p \in Procs : init_bagua_intra_communicator_return(p)
    \/ \E p \in Procs : init_bagua_communicator(p)
    \/ \E p \in Procs : init_bagua_communicator_return(p)

Spec == Init /\ [][Next]_vars

\* The next statement of process p.  A process is an operating system
\* process of its own: it runs whenever its next statement does not block.
ProcessNext(p) ==
    /\ p \in Procs
    /\ \/ init_process_group(p)
       \/ init_bagua_inter_communicator(p)
       \/ init_bagua_inter_communicator_return(p)
       \/ init_bagua_intra_communicator(p)
       \/ init_bagua_intra_communicator_return(p)
       \/ init_bagua_communicator(p)
       \/ init_bagua_communicator_return(p)

\* A job of up to MaxRanks processes in which any statement of
\* init_process_group may raise.
InitFail == Init /\ world_size <= MaxRanks

NextFail ==
    \/ Next
    \/ \E p \in Procs : init_process_group_raises(p)

SpecFail == InitFail /\ [][NextFail]_vars

\* The job under a scheduler that lets every process run.
FairSpec == Spec /\ \A p \in 0 .. (MaxW - 1) : WF_vars(ProcessNext(p))

\* A job of one process that also calls the accessors and the collectives,
\* before, between and after its initialization steps' calls.
InitApi == Init /\ world_size = 1 /\ local_size = 1

NextApi ==
    \/ Next
    \/ \E p \in Procs : call_is_initialized(p)
    \/ \E p \in Procs : get_bagua_hyperparameters(p)
    \/ \E p \in Procs : get_hyperparameters_service_client(p)
    \/ \E p \in Procs : broadcast_coalesced(p)
    \/ \E p \in Procs : broadcast(p)
    \/ \E p \in Procs : allreduce_coalesced(p)
    \/ \E p \in Procs : allreduce(p)

SpecApi == InitApi /\ [][NextApi]_vars

\* A script of up to MaxRanks processes: each initializes, then makes one
\* collective call, the same on every rank that makes it.
InitColl == Init /\ world_size <= MaxRanks

NextColl ==
    \/ \E p \in Procs : ~is_initialized(p) /\ init_process_group(p)
    \/ \E p \in Procs : init_bagua_inter_communicator(p)
    \/ \E p \in Procs : init_bagua_inter_communicator_return(p)
    \/ \E p \in Procs : init_bagua_intra_communicator(p)
    \/ \E p \in Procs : init_bagua_intra_communicator_return(p)
    \/ \E p \in Procs : init_bagua_communicator(p)
    \/ \E p \in Procs : init_bagua_communicator_return(p)
    \/ \E p \in Procs : broadcast_coalesced_issue(p)
    \/ \E p \in Procs : broadcast_issue(p)
    \/ \E p \in Procs : allreduce_coalesced_issue(p)
    \/ \E p \in Procs : allreduce_issue(p)
    \/ \E p \in Procs : current_stream_run(p)
    \/ \E p \in Procs : wait_event_run(p)
    \/ \E p \in Procs : flatten_run(p)
    \/ \E p \in Procs : nccl_launch(p)
    \/ \E p \in Procs : nccl_finish(p)
    \/ \E p \in Procs : divide_run(p)
    \/ \E p \in Procs : copy_run(p)
    \/ \E p \in Procs : synchronize_return(p)

SpecColl == InitColl /\ [][NextColl]_vars

\* The lists flatten accepts: tensors of one accelerator.
RoundTripTensors ==
    [device : {"cuda:0", "cuda:1"},
     data : UNION {[1 .. n -> {Rat(1, 1), Rat(2, 1)}] : n \in ElementCounts}]

RoundTripLists ==
    {l \in UNION {[1 .. n -> RoundTripTensors] : n \in 1 .. MaxTensors} : SameDevice(l)}

\* flatten and the copy back of unflatten, with nothing between them, on
\* every such list: the two statements are the only work of the stream.
InitRoundTrip ==
    /\ InitProcesses
    /\ world_size = 1
    /\ job = NoJob
    /\ host = [p \in Procs |-> NotCalling]
    /\ \E l \in RoundTripLists : tensor_mem = [p \in Procs |-> l]
    /\ coalesced_mem = [p \in Procs |-> None]
    /\ current_stream = [p \in Procs |-> <<>>]
    /\ comm_stream = [p \in Procs |-> <<[kind |-> "flatten"], [kind |-> "copy_"]>>]
    /\ event = [p \in Procs |-> "none"]
    /\ nccl = {}
    /\ InitOptimizer
    /\ InitLauncher

NextRoundTrip ==
    \/ \E p \in Procs : flatten_run(p)
    \/ \E p \in Procs : copy_run(p)

SpecRoundTrip == InitRoundTrip /\ [][NextRoundTrip]_vars

\* Where a gradient lies in its allocation, relative to the data in its own.
GradShifts == {0, 20}

\* The parameters of one allocation: with bagua_tensor, 5 elements take the
\* room of 10.
ParamsOfOneStorage(registered) ==
    {[storage |-> "s0", data_offset |-> d, grad_offset |-> d + g, numel |-> n,
      bagua_tensor |-> IF registered
                       THEN [num_elem_allocated |-> IF n = 5 THEN 10 ELSE n]
                       ELSE None] :
        d \in {0, 10, 30}, g \in GradShifts, n \in {0, 5, 10}}

\* The optimizer's parameters are told apart by their place in its list.
WithIds(params) == [k \in DOMAIN params |-> [ids |-> <<k>>] @@ params[k]]

\* One parameter group, whose parameters share one allocation, in any order.
InitReorder ==
    /\ InitProcesses
    /\ world_size = 1
    /\ InitDevices
    /\ \E registered \in BOOLEAN, n \in 1 .. MaxParams :
         \E params \in [1 .. n -> ParamsOfOneStorage(registered)] :
            optimizer = [param_groups |-> <<[params |-> WithIds(params)]>>]
    /\ fused_optimizer = [do_flatten |-> FALSE]
    /\ flatten_calls = <<>>
    /\ last_step = NoStep
    /\ InitLauncher

NextReorder == step

SpecReorder == InitReorder /\ [][NextReorder]_vars

\* The allocations the parameters of a wrapped optimizer lie in, and the
\* type() of the tensors that lie in them.
Storages == {"s0", "s1", "s2"}

StorageType(s) ==
    CASE s = "s0" -> "torch.cuda.FloatTensor"
      [] s = "s1" -> "torch.cuda.HalfTensor"
      [] s = "s2" -> "torch.FloatTensor"

\* A parameter of 10 elements at one of two places of its allocation, its
\* gradient at the same place of another allocation.
ParamsOfStorages ==
    {[storage |-> s, data_offset |-> d, grad_offset |-> d, numel |-> 10,
      bagua_tensor |-> None, type |-> StorageType(s)] :
        s \in Storages, d \in {0, 10}}

\* The list `params` cut into parameter groups at the places `cuts`.
RECURSIVE SplitAt(_, _, _)
SplitAt(params, cuts, from) ==
    IF from > Len(params) THEN <<>>
    ELSE LET later == {c \in cuts : c >= from}
             to == IF later = {} THEN Len(params)
                   ELSE CHOOSE c \in later : \A d \in later : c <= d
         IN <<[params |-> SubSeq(params, from, to)]>> \o SplitAt(params, cuts, to + 1)

\* A wrapped optimizer of up to MaxGroups parameter groups and up to
\* MaxParams parameters; no FusedOptimizer wraps it yet.
InitFused ==
    /\ InitProcesses
    /\ world_size = 1
    /\ InitDevices
    /\ \E n \in 1 .. MaxParams :
         \E params \in [1 .. n -> ParamsOfStorages],
            cuts \in SUBSET (1 .. (n - 1)) :
            /\ Cardinality(cuts) < MaxGroups
            /\ optimizer = [param_groups |-> SplitAt(WithIds(params), cuts, 1)]
    /\ fused_optimizer = None
    /\ flatten_calls = <<>>
    /\ last_step = NoStep
    /\ InitLauncher

NextFused ==
    \/ \E do_flatten \in BOOLEAN : FusedOptimizer(do_flatten)
    \/ step
    \/ \E g \in 1 .. MaxGroups : reassign(g)

SpecFused == InitFused /\ [][NextFused]_vars

\* The launcher of one node of a job of up to MaxNodes nodes, told to spawn
\* up to MaxNproc children, with or without --logdir.
InitLaunch ==
    /\ InitProcesses
    /\ world_size = 1
    /\ InitDevices
    /\ InitOptimizer
    /\ \E nnodes \in 1 .. MaxNodes, nproc_per_node \in 1 .. MaxNproc, logdir \in BOOLEAN :
         \E node_rank \in 0 .. (nnodes - 1) :
            args = [nnodes |-> nnodes, node_rank |-> node_rank,
                    nproc_per_node |-> nproc_per_node, logdir |-> logdir]
    /\ processes = <<>>
    /\ children = <<>>
    /\ subprocess_file_handles = <<>>
    /\ last_return_code = None
    /\ alive_processes = {}
    /\ main = [pc |-> "spawn", returncode |-> None]

NextLaunch ==
    \/ Popen
    \/ \E i \in DOMAIN children : child_exit(i)
    \/ monitor
    \/ \E signum \in sig_names : signal(signum)

SpecLaunch == InitLaunch /\ [][NextLaunch]_vars

\* The launcher itself keeps running: the spawning loop has no blocking
\* call, and the monitoring loop polls again after time.sleep(1).
LauncherNext == Popen \/ monitor

FairSpecLaunch == SpecLaunch /\ WF_vars(LauncherNext)

\* ================================================================== claims
\* What the claims speak of, written from the claims' own words.
Initialized(p) == _global_state[p] # None

AllInitialized == \A p \in Procs : Initialized(p)

NodeOf(p) == p \div local_size

FirstRankOfNode(p) == NodeOf(p) * local_size

InterCalls == {j \in joined : j.by = "init_bagua_inter_communicator"}

IntraCalls == {j \in joined : j.by = "init_bagua_intra_communicator"}

GlobalCalls == {j \in joined : j.by = "init_bagua_communicator"}

\* Two constructor calls are made by members of one scope instance.
SameScopeInstance(j1, j2) ==
    /\ j1.by = j2.by
    /\ j1.by = "init_bagua_intra_communicator" => NodeOf(j1.proc) = NodeOf(j2.proc)

ScopeOfCommType(comm_type) ==
    CASE comm_type = "bagua_inter_comm" -> "init_bagua_inter_communicator"
      [] comm_type = "bagua_intra_comm" -> "init_bagua_intra_communicator"
      [] comm_type = "bagua_global_comm" -> "init_bagua_communicator"

\* The ranks that published (store.set) the id.
Publishers(id) == {e.rank : e \in {x \in storeOps : x.op = "set" /\ x.idstr = id}}

Accessors == {"get_bagua_hyperparameters", "get_hyperparameters_service_client"}

HasCpuTensor(tensors) == \E i \in DOMAIN tensors : tensors[i].device = "cpu"

CoalescedOps == {"broadcast_coalesced", "allreduce_coalesced"}

MixedDevices(tensors) ==
    \E i \in DOMAIN tensors, k \in DOMAIN tensors : tensors[i].device # tensors[k].device

\* How many elements the tensors before position i hold together.
RECURSIVE ElementsBefore(_, _)
ElementsBefore(tensors, i) ==
    IF i = 1 THEN 0 ELSE ElementsBefore(tensors, i - 1) + Len(tensors[i - 1].data)

\* The processes that called the collective on the communicator p called it on.
Group(p) ==
    {q \in Procs : /\ host[q].comm # None
                   /\ host[q].comm.nccl_unique_id = host[p].comm.nccl_unique_id}

Returned(p) == host[p].pc = "returned"

\* The call has returned on every member of p's communicator.
GroupReturned(p) ==
    /\ host[p].comm # None
    /\ Cardinality(Group(p)) = host[p].comm.nranks
    /\ \A q \in Group(p) : Returned(q)

\* The member of p's communicator whose rank in it is r.
MemberOfRank(p, r) == CHOOSE q \in Group(p) : host[q].comm.rank = r

\* The value element e of tensor i had on process q when q made the call.
ValueBeforeCall(q, i, e) == ProducedData(q, job.shape)[i][e]

RECURSIVE SumOverMembers(_, _, _)
SumOverMembers(members, i, e) ==
    IF members = {} THEN 0
    ELSE LET q == CHOOSE m \in members : TRUE IN
         ValueBeforeCall(q, i, e)[1] + SumOverMembers(members \ {q}, i, e)

\* Every rank of the communicator has contributed its buffer.
AllLaunchedOn(comm) ==
    \A r \in 0 .. (comm.nranks - 1) :
        \E c \in nccl : c.id = comm.nccl_unique_id /\ c.rank = r

\* The processes inside, or back from, a collective wrapper.
Callers == {q \in Procs : host[q].comm # None}

BroadcastOps == {"broadcast", "broadcast_coalesced"}

AllreduceOps == {"allreduce", "allreduce_coalesced"}

\* The kinds of work a wrapper enqueues for its collective.
CollectiveWork == {"flatten", "broadcast", "allreduce", "divide", "copy_"}

\* The parameter list of the only parameter group, before and after a step.
ParamsBefore == optimizer.param_groups[1].params

ParamsAfter == optimizer'.param_groups[1].params

\* The parameter of the list `before` that stands first in the ids i opens.
ParamOpenedBy(before, i) == CHOOSE k \in DOMAIN before : before[k].ids[1] = i

Opens(before, i) == \E k \in DOMAIN before : before[k].ids[1] = i

\* The parameters of `before` that a returned group was made of, in its order.
MembersOf(before, group) ==
    LET heads == SelectSeq(group.ids, LAMBDA i : Opens(before, i)) IN
    [k \in DOMAIN heads |-> before[ParamOpenedBy(before, heads[k])]]

\* For every returned group, the parameters of `before` it was made of.
RECURSIVE GroupMembers(_, _, _)
GroupMembers(before, after, g) ==
    IF g = 0 THEN <<>>
    ELSE Append(GroupMembers(before, after, g - 1), MembersOf(before, after[g]))

\* The parameters in the order the returned groups hold them.
RECURSIVE Scanned(_, _)
Scanned(members, g) ==
    IF g = 0 THEN <<>> ELSE Scanned(members, g - 1) \o members[g]

\* The allocated element count of a parameter.
AllocatedCount(a) ==
    IF a.bagua_tensor = None THEN a.numel ELSE a.bagua_tensor.num_elem_allocated

\* b starts where a ends, in the data and in the gradient.
Follows(a, b) ==
    /\ b.data_offset = a.data_offset + AllocatedCount(a)
    /\ b.grad_offset = a.grad_offset + AllocatedCount(a)

MutuallyContiguous(a, b) == Follows(a, b) \/ Follows(b, a)

\* Positions k and k + 1 of the scanned list lie in one returned group.
Merged(members, scan, k) ==
    \E g \in DOMAIN members :
        \E m \in 1 .. (Len(members[g]) - 1) :
            members[g][m] = scan[k] /\ members[g][m + 1] = scan[k + 1]

\* The log of a call holds a collective issued on the communicator.
IssuedCollective(log) == \E i \in DOMAIN log : log[i] \in {"broadcast", "allreduce"}

\* C1: once init_process_group() has succeeded in a process, every later call
\* of it in that process fails with RepeatedInitializationError and leaves
\* the global state, and everything else the call could touch, as it was.
C1_RepeatedInitRejected ==
    [][\A p \in Procs :
        (_global_state[p] # None /\ init_process_group(p)) =>
            /\ lastCall'[p].outcome = "RepeatedInitializationError"
            /\ _global_state' = _global_state
            /\ UNCHANGED <<pc, self, store, storeOps, joined, attempt, _autotune_server>>]_vars

C1_Witness ==
    \E p \in Procs :
        /\ _global_state[p] # None
        /\ lastCall[p].op = "init_process_group"
        /\ lastCall[p].outcome = "RepeatedInitializationError"

\* C2: an accessor of the global state called before init_process_group() has
\* succeeded fails with NotInitializedError, and is_initialized() returns
\* false there.
C2_AccessorBeforeInitNotInitializedError ==
    \A p \in Procs :
        _global_state[p] = None =>
            /\ lastCall[p].op \in Accessors => lastCall[p].outcome = "NotInitializedError"
            /\ lastCall[p].op = "is_initialized" => lastCall[p].value = FALSE

\* C3: a collective called with comm None before initialization is reported
\* as NotInitializedError, and nothing is recorded or issued on a stream.
C3_NoCommunicatorNotInitializedError ==
    \A p \in Procs :
        (/\ lastCall[p].op \in Collectives
         /\ _global_state[p] = None
         /\ lastCall[p].comm_arg = None
         /\ ~HasCpuTensor(lastCall[p].tensors_in)) =>
            /\ lastCall[p].outcome = "NotInitializedError"
            /\ lastCall[p].log = <<>>

C5_InterCommunicatorOnLeadersOnly ==
    \A p \in Procs :
        Initialized(p) =>
            LET g == _global_state[p] IN
            /\ g.internode_communicator.kind = "comm" <=> p % local_size = 0
            /\ p % local_size = 0 =>
                  /\ g.internode_communicator.rank = p \div local_size
                  /\ g.internode_communicator.nranks = world_size \div local_size
            /\ p % local_size # 0 => g.internode_communicator = None
            /\ g.intranode_communicator.kind = "comm"
            /\ g.global_communicator.kind = "comm"

C5_Witness ==
    \E p \in Procs, q \in Procs :
        /\ Initialized(p) /\ Initialized(q)
        /\ p % local_size = 0 /\ p \div local_size > 0
        /\ q % local_size # 0
        /\ _global_state[p].internode_communicator.kind = "comm"
        /\ _global_state[q].internode_communicator = None

\* C6: the intra-node communicator of global rank R is built with rank
\* R mod L and size L, and its id was generated and published by global rank
\* (R div L) * L, the first rank of R's node, and by no other.
C6_IntraCommunicatorArguments ==
    /\ \A j \in IntraCalls :
        /\ j.rank = j.proc % local_size
        /\ j.nranks = local_size
        /\ Publishers(j.id) = {FirstRankOfNode(j.proc)}
    /\ \A p \in Procs :
        Initialized(p) =>
            /\ _global_state[p].intranode_communicator.rank = p % local_size
            /\ _global_state[p].intranode_communicator.nranks = local_size
            /\ Publishers(_global_state[p].intranode_communicator.nccl_unique_id)
                   = {FirstRankOfNode(p)}

C6_Witness ==
    \E p \in Procs :
        /\ Initialized(p)
        /\ NodeOf(p) > 0
        /\ p # FirstRankOfNode(p)
        /\ _global_state[p].intranode_communicator.rank = p % local_size

\* C7: the global communicator of global rank R is built with rank R and
\* size W, and its id was generated and published by global rank 0 only.
C7_GlobalCommunicatorArguments ==
    /\ \A j \in GlobalCalls :
        /\ j.rank = j.proc
        /\ j.nranks = world_size
        /\ Publishers(j.id) = {0}
    /\ \A p \in Procs :
        Initialized(p) =>
            /\ _global_state[p].global_communicator.rank = p
            /\ _global_state[p].global_communicator.nranks = world_size
            /\ Publishers(_global_state[p].global_communicator.nccl_unique_id) = {0}

C7_Witness ==
    \E p \in Procs :
        /\ Initialized(p)
        /\ p > 0
        /\ world_size > local_size
        /\ _global_state[p].global_communicator.rank = p

\* C8: when W is divisible by L and all W processes are initialized, the
\* processes sharing one intra-node id are exactly the L ranks of one node,
\* with intra-node ranks covering 0..L-1 without repetition; the holders of
\* an inter-node communicator are exactly the ranks 0, L, 2L, ..., with
\* inter-node ranks covering 0..W/L-1 without repetition; every other rank
\* holds None.
C8_Topology ==
    (AllInitialized /\ world_size % local_size = 0) =>
        LET intra(p) == _global_state[p].intranode_communicator
            inter(p) == _global_state[p].internode_communicator
            leaders == {p \in Procs : inter(p).kind = "comm"}
        IN
        /\ \A p \in Procs :
            LET group == {q \in Procs : intra(q).nccl_unique_id = intra(p).nccl_unique_id} IN
            /\ group = {q \in Procs : NodeOf(q) = NodeOf(p)}
            /\ Cardinality(group) = local_size
            /\ {intra(q).rank : q \in group} = 0 .. (local_size - 1)
        /\ leaders = {k * local_size : k \in 0 .. ((world_size \div local_size) - 1)}
        /\ {inter(p).rank : p \in leaders} = 0 .. ((world_size \div local_size) - 1)
        /\ \A p \in leaders, q \in leaders : inter(p).rank = inter(q).rank => p = q
        /\ \A p \in leaders, q \in leaders :
              inter(p).nccl_unique_id = inter(q).nccl_unique_id
        /\ \A p \in Procs \ leaders : inter(p) = None

C8_Witness ==
    /\ AllInitialized
    /\ world_size = 4
    /\ local_size = 2
    /\ {p \in Procs : _global_state[p].internode_communicator.kind = "comm"} = {0, 2}

\* C9: when W is not divisible by L, building the topology reports a
\* configuration error and never calls the inter-node constructor with the
\* truncated size W div L.
C9_NonDivisibleIsConfigurationError ==
    world_size % local_size # 0 =>
        /\ \A j \in InterCalls : j.nranks # world_size \div local_size
        /\ \A p \in Procs :
              (lastCall[p].op = "init_process_group" /\ pc[p] # "inter_id") =>
                  lastCall[p].outcome = "ConfigurationError"

C12_FlattenUnflattenRoundTrip ==
    /\ [][\A p \in Procs : tensor_mem'[p] = tensor_mem[p]]_vars
    /\ [](\A p \in Procs :
            comm_stream[p] = <<>> =>
                \A i \in DOMAIN tensor_mem[p] :
                    tensor_mem[p][i].data =
                        SubSeq(coalesced_mem[p].data,
                               ElementsBefore(tensor_mem[p], i) + 1,
                               ElementsBefore(tensor_mem[p], i) + Len(tensor_mem[p][i].data)))

C12_Witness ==
    \E p \in Procs :
        /\ comm_stream[p] = <<>>
        /\ Len(tensor_mem[p]) = 2
        /\ tensor_mem[p][1].data = <<Rat(1, 1)>>
        /\ tensor_mem[p][2].data = <<Rat(2, 1), Rat(1, 1)>>
        /\ coalesced_mem[p] # None

\* C13: once broadcast or broadcast_coalesced with root r has returned on
\* every member of the communicator, every member's tensors hold what the
\* tensors of the member of rank r held before the call; the root's own
\* tensors are as they were.
C13_BroadcastDeliversRootValue ==
    \A p \in Procs :
        (job.op \in BroadcastOps /\ GroupReturned(p)) =>
            \A q \in Group(p) : \A i \in DOMAIN job.shape : \A e \in 1 .. job.shape[i] :
                /\ Len(tensor_mem[q][i].data) = job.shape[i]
                /\ tensor_mem[q][i].data[e] = ValueBeforeCall(MemberOfRank(p, job.root), i, e)

C13_Witness ==
    /\ world_size = 2
    /\ job.op = "broadcast_coalesced"
    /\ job.root = 1
    /\ Len(job.shape) = 2
    /\ GroupReturned(0)
    /\ Group(0) = {0, 1}
    /\ tensor_mem[0][2].data[1] = ValueBeforeCall(1, 2, 1)
    /\ ValueBeforeCall(1, 2, 1) # ValueBeforeCall(0, 2, 1)

\* C14: once allreduce or allreduce_coalesced has returned on the N members of
\* the communicator, every member's tensors hold, with average=False, the
\* elementwise sum of the members' tensors before the call and, with
\* average=True, that sum divided by N; NCCL is handed the undivided tensors.
C14_AllreduceSumOrAverage ==
    \A p \in Procs :
        (job.op \in AllreduceOps /\ job.average \in {"True", "False"} /\ GroupReturned(p)) =>
            /\ \A q \in Group(p) : \A i \in DOMAIN job.shape : \A e \in 1 .. job.shape[i] :
                  /\ Len(tensor_mem[q][i].data) = job.shape[i]
                  /\ tensor_mem[q][i].data[e] =
                        Rat(SumOverMembers(Group(p), i, e),
                            IF job.average = "True" THEN host[p].comm.nranks ELSE 1)
            /\ \A c \in nccl : \A q \in Group(p) :
                  (c.id = host[q].comm.nccl_unique_id /\ c.rank = host[q].comm.rank) =>
                      \A i \in DOMAIN job.shape : \A e \in 1 .. job.shape[i] :
                          c.data[ShapeOffset(job.shape, i) + e] = ValueBeforeCall(q, i, e)

C14_Witness ==
    /\ world_size = 2
    /\ job.op = "allreduce_coalesced"
    /\ job.average = "True"
    /\ Len(job.shape) = 2
    /\ GroupReturned(0)
    /\ Group(0) = {0, 1}
    /\ tensor_mem[1][1].data[1] = Rat(2, 1)
    /\ tensor_mem[0][2].data[1] = Rat(SumOverMembers({0, 1}, 2, 1), 2)

\* C15: allreduce(tensor) with no other argument, on two ranks holding [1, 2]
\* and [3, 4], leaves the elementwise sum [4, 6] on both ranks.
C15_DefaultAllreduceLeavesSum ==
    (/\ world_size = 2
     /\ job = [op |-> "allreduce", shape |-> <<2>>, root |-> 0,
               average |-> "omitted", comm |-> "omitted"]
     /\ GroupReturned(0)) =>
        \A q \in Procs : tensor_mem[q][1].data = <<Rat(4, 1), Rat(6, 1)>>

\* C16: the event is recorded on the current stream and the communicator's
\* stream is made to wait for it before any work of the collective: the wait
\* heads the work enqueued, no item of that work runs before the event has
\* completed behind the kernels that produce the tensors, and all of it runs
\* before the wrapper returns.
C16_StreamOrderBeforeExecute ==
    /\ [](\A p \in Procs :
            host[p].pc = "synchronize" =>
                \A k \in DOMAIN comm_stream[p] :
                    comm_stream[p][k].kind \in CollectiveWork =>
                        \/ event[p] = "complete"
                        \/ \E w \in 1 .. (k - 1) : comm_stream[p][w].kind = "wait_event")
    /\ [][\A p \in Procs :
            (/\ comm_stream[p] # <<>>
             /\ comm_stream'[p] # comm_stream[p]
             /\ Head(comm_stream[p]).kind \in CollectiveWork) =>
                /\ event[p] = "complete"
                /\ \A k \in DOMAIN current_stream[p] : current_stream[p][k].kind # "kernel"
                /\ tensor_mem[p] # StaleTensors(p, job.shape)
                /\ host[p].pc = "synchronize"]_vars

C16_Witness ==
    \E p \in Procs :
        /\ host[p].pc = "synchronize"
        /\ event[p] = "complete"
        /\ current_stream[p] = <<>>
        /\ comm_stream[p] # <<>>
        /\ Head(comm_stream[p]).kind = "allreduce"
        /\ Head(comm_stream[p]).launched
        /\ Len(comm_stream[p]) = 3

\* C17: when a collective returns, all the work it enqueued on the
\* communicator's stream has completed.
C17_ReturnAfterStreamDrained ==
    \A p \in Procs :
        Returned(p) =>
            /\ comm_stream[p] = <<>>
            /\ current_stream[p] = <<>>
            /\ \E c \in nccl : c.id = host[p].comm.nccl_unique_id /\ c.rank = host[p].comm.rank
            /\ AllLaunchedOn(host[p].comm)

C17_Witness ==
    \E p \in Procs :
        /\ Returned(p)
        /\ job.op = "broadcast"
        /\ host[p].comm.nranks = 2
        /\ ~Returned(1 - p)

\* C18: a collective called without comm, after initialization, runs on the
\* global communicator (rank R, size W); called with a communicator, it runs
\* on that communicator, and not on the global one when another is passed.
C18_CommDefaultsToGlobal ==
    \A p \in Procs :
        host[p].pc \in {"synchronize", "returned"} =>
            /\ job.comm = "omitted" =>
                  /\ host[p].comm = _global_state[p].global_communicator
                  /\ host[p].comm.rank = p
                  /\ host[p].comm.nranks = world_size
            /\ job.comm # "omitted" =>
                  /\ host[p].comm = CommArg(p, job.comm)
                  /\ job.comm # "global" =>
                        host[p].comm.nccl_unique_id #
                            _global_state[p].global_communicator.nccl_unique_id
            /\ \A c \in nccl : c.id \in {host[q].comm.nccl_unique_id : q \in Procs \cap Callers}

C18_Witness ==
    /\ world_size = 2
    /\ local_size = 2
    /\ job.op = "allreduce"
    /\ job.comm = "intranode"
    /\ GroupReturned(1)
    /\ host[1].comm = _global_state[1].intranode_communicator
    /\ host[1].comm.nranks = 2

GroupLists == {optimizer.param_groups[g].params : g \in DOMAIN optimizer.param_groups}

\* The place of a parameter in a list that holds it once.
PlaceIn(list, param) == CHOOSE i \in DOMAIN list : list[i] = param

\* The first place of a list whose parameter lies in the allocation.
FirstPlaceOf(list, storage) ==
    CHOOSE i \in DOMAIN list :
        /\ list[i].storage = storage
        /\ \A j \in 1 .. (i - 1) : list[j].storage # storage

\* The partitions that hold the parameter at place i of the list.
PartitionsOf(list, parts, i) ==
    {k \in DOMAIN parts : \E m \in DOMAIN parts[k].l : parts[k].l[m] = list[i]}

\* C21: group_params_by_storage partitions a parameter list by allocation:
\* every parameter is in exactly one partition and once, two parameters are
\* in one partition iff they share the allocation, a partition keeps the
\* input order, and the partitions come in the order of the first parameter
\* of their allocation in the list.
C21_PartitionByStorage ==
    fused_optimizer # None =>
        \A list \in GroupLists :
        \A parts \in {group_params_by_storage(list)} :
            /\ \A i \in DOMAIN list :
                  /\ Cardinality(PartitionsOf(list, parts, i)) = 1
                  /\ \A k \in PartitionsOf(list, parts, i) :
                        Cardinality({m \in DOMAIN parts[k].l : parts[k].l[m] = list[i]}) = 1
            /\ \A k \in DOMAIN parts : \A m \in DOMAIN parts[k].l :
                  \E i \in DOMAIN list : list[i] = parts[k].l[m]
            /\ \A i \in DOMAIN list, j \in DOMAIN list :
                  (PartitionsOf(list, parts, i) = PartitionsOf(list, parts, j))
                      <=> (list[i].storage = list[j].storage)
            /\ \A k \in DOMAIN parts : \A m \in DOMAIN parts[k].l, n \in DOMAIN parts[k].l :
                  m < n => PlaceIn(list, parts[k].l[m]) < PlaceIn(list, parts[k].l[n])
            /\ \A k \in DOMAIN parts, h \in DOMAIN parts :
                  k < h => FirstPlaceOf(list, parts[k].key) < FirstPlaceOf(list, parts[h].key)

\* A step has run over a list whose first and third parameter share an
\* allocation the second does not lie in: the third is now ahead of the second.
C21_Witness ==
    /\ last_step.op = "step"
    /\ \E g \in DOMAIN last_step.param_groups :
         \E k \in 1 .. (Len(last_step.param_groups[g].params) - 2) :
            LET seen == last_step.param_groups[g].params IN
            /\ seen[k].ids = <<1>> /\ seen[k + 1].ids = <<3>> /\ seen[k + 2].ids = <<2>>
            /\ seen[k].storage = seen[k + 1].storage
            /\ seen[k].storage # seen[k + 2].storage

\* The parameter list of group g before and after a step.
ListBefore(g) == optimizer.param_groups[g].params

ListAfter(g) == optimizer'.param_groups[g].params

\* C22: the parameters of one allocation are scanned in ascending order of
\* their offset, whatever their order in the group's list, and those at one
\* offset in the order the list had them in.
C22_ScannedByAscendingOffset ==
    [][step =>
       \A g \in DOMAIN optimizer.param_groups :
       \A before \in {ListBefore(g)}, after \in {ListAfter(g)} :
       \A scan \in {Scanned(GroupMembers(before, after, Len(after)), Len(after))} :
          /\ Len(scan) = Len(before)
          /\ \A k \in DOMAIN scan, h \in DOMAIN scan :
                (k < h /\ scan[k].storage = scan[h].storage) =>
                    \/ scan[k].data_offset < scan[h].data_offset
                    \/ /\ scan[k].data_offset = scan[h].data_offset
                       /\ PlaceIn(before, scan[k]) < PlaceIn(before, scan[h])
      ]_vars

\* A step has run over the parameters 1 at offset 10, 2 and 3 at offset 0 of
\* one allocation: it scanned 2, then 3, then 1, and fused the last two.
C22_Witness ==
    /\ last_step.op = "step"
    /\ \E g \in DOMAIN last_step.param_groups :
         \E k \in 1 .. (Len(last_step.param_groups[g].params) - 1) :
            LET seen == last_step.param_groups[g].params IN
            /\ seen[k].ids = <<2>> /\ seen[k + 1].ids = <<3, 1>>
            /\ seen[k].storage = seen[k + 1].storage
            /\ seen[k].data_offset = seen[k + 1].data_offset

\* C23: every call of step replaces the parameter list of every group of
\* the wrapped optimizer by the regrouping of the list the group holds at
\* that call, the wrapped optimizer's step runs on the replaced lists, and
\* step returns what the wrapped step returned.
C23_RegroupedBeforeWrappedStep ==
    [][step =>
        /\ DOMAIN optimizer'.param_groups = DOMAIN optimizer.param_groups
        /\ \A g \in DOMAIN optimizer.param_groups :
              /\ ListAfter(g) = fused_params(ListBefore(g))
              /\ last_step'.param_groups[g].params = ListAfter(g)
        /\ last_step'.op = "step"
        /\ last_step'.returned = last_step'.loss
        /\ last_step'.closure = None <=> last_step'.loss = None
      ]_vars

\* The wrapped step ran on two groups, the first of which holds parameter 2
\* ahead of parameter 1 of another allocation: a list that was assigned
\* after an earlier step, and regrouped by this one; the closure's loss was
\* returned.
C23_Witness ==
    /\ last_step.op = "step"
    /\ Len(last_step.param_groups) = 2
    /\ Len(last_step.param_groups[1].params) = 2
    /\ last_step.param_groups[1].params[1].ids = <<2>>
    /\ last_step.param_groups[1].params[2].ids = <<1>>
    /\ last_step.param_groups[1].params[1].storage # last_step.param_groups[1].params[2].storage
    /\ last_step.param_groups = optimizer.param_groups
    /\ last_step.returned = [kind |-> "loss"]

\* C24: the global state of a process is assigned only inside
\* init_process_group, and once it is set no call of a collective, of an
\* accessor, of is_initialized or of init_process_group changes the
\* communicators, the stream, the hyperparameters or the client it holds.
C24_GlobalStateWrittenOnlyByInit ==
    [][\A p \in Procs :
        /\ Initialized(p) => _global_state'[p] = _global_state[p]
        /\ _global_state'[p] # _global_state[p] =>
              /\ ~AtCallSite(p)
              /\ lastCall'[p] = [op |-> "init_process_group", outcome |-> "ok"]
      ]_vars

\* An initialized process has broadcast on the global communicator of the
\* state its only initialization built.
C24_Witness ==
    \E p \in Procs :
        /\ Initialized(p)
        /\ attempt[p] = 1
        /\ lastCall[p].op = "broadcast"
        /\ lastCall[p].outcome = "ok"
        /\ lastCall[p].comm = _global_state[p].global_communicator
        /\ _global_state[p].stream = <<"Stream", p, 1>>

\* The places (group, index) of the parameters of the wrapped optimizer.
ParamPlaces ==
    {place \in (1 .. MaxGroups) \X (1 .. MaxParams) :
        /\ place[1] \in DOMAIN optimizer.param_groups
        /\ place[2] \in DOMAIN optimizer.param_groups[place[1]].params}

ParamAt(place) == optimizer.param_groups[place[1]].params[place[2]]

ParamAtAfter(place) == optimizer'.param_groups[place[1]].params[place[2]]

\* The parameter was passed to the call of flatten_module_params.
PassedTo(call, param) ==
    \E k \in DOMAIN call.params_list : call.params_list[k].ids = param.ids

SingleOrHalfOnAccelerator == {"torch.cuda.FloatTensor", "torch.cuda.HalfTensor"}

\* C25: flatten_module_params is called by the construction of a
\* FusedOptimizer with do_flatten, once for the single precision and once
\* for the half precision accelerator parameters, and by nothing else: not
\* by a construction without do_flatten, not by step.  The parameters of
\* each of the two types are passed to their own call and end in an
\* allocation of their own; other parameters are passed to no call and stay.
C25_FlattenOnceAtConstruction ==
    /\ [](/\ fused_optimizer = None => flatten_calls = <<>>
          /\ fused_optimizer # None =>
                /\ Len(flatten_calls) = IF fused_optimizer.do_flatten THEN 2 ELSE 0
                /\ \A c \in DOMAIN flatten_calls : flatten_calls[c].by = "__init__")
    /\ [][/\ FusedOptimizer(FALSE) => optimizer' = optimizer
          /\ FusedOptimizer(TRUE) =>
                /\ Len(flatten_calls') = 2
                /\ \A x \in ParamPlaces :
                      /\ PassedTo(flatten_calls'[1], ParamAt(x))
                            <=> ParamAt(x).type = "torch.cuda.FloatTensor"
                      /\ PassedTo(flatten_calls'[2], ParamAt(x))
                            <=> ParamAt(x).type = "torch.cuda.HalfTensor"
                      /\ ParamAt(x).type \notin SingleOrHalfOnAccelerator
                            => ParamAtAfter(x) = ParamAt(x)
                      /\ ParamAt(x).type \in SingleOrHalfOnAccelerator
                            => /\ ParamAtAfter(x).storage \notin Storages
                               /\ ParamAtAfter(x).ids = ParamAt(x).ids
                               /\ ParamAtAfter(x).type = ParamAt(x).type
                /\ \A x \in ParamPlaces, y \in ParamPlaces :
                      (/\ ParamAt(x).type \in SingleOrHalfOnAccelerator
                       /\ ParamAt(y).type \in SingleOrHalfOnAccelerator) =>
                          ((ParamAtAfter(x).storage = ParamAtAfter(y).storage)
                              <=> (ParamAt(x).type = ParamAt(y).type))
         ]_vars

\* A FusedOptimizer was constructed with do_flatten over a single
\* precision, a half precision and a host parameter, and has stepped since:
\* the two calls of the construction are the only ones, each got one
\* parameter, and the host parameter lies where it lay.
C25_Witness ==
    /\ fused_optimizer # None
    /\ fused_optimizer.do_flatten
    /\ last_step.op = "step"
    /\ Len(flatten_calls) = 2
    /\ Len(flatten_calls[1].params_list) = 1
    /\ Len(flatten_calls[2].params_list) = 1
    /\ \E g \in DOMAIN optimizer.param_groups :
         \E k \in DOMAIN optimizer.param_groups[g].params :
            /\ optimizer.param_groups[g].params[k].storage = "s2"
            /\ optimizer.param_groups[g].params[k].data_offset = 10

\* The world size is a multiple of the local size.
Divisible == world_size % local_size = 0

\* C26: in a job whose world size is a multiple of its local size, under a
\* scheduler that lets every process run, every process completes
\* init_process_group: the waits on the store and on the constructors of
\* the communicators never block each other for ever.
C26_InitializationCompletes == Divisible ~> AllInitialized

\* Four processes on two nodes have all completed their initialization.
C26_Witness ==
    /\ world_size = 4
    /\ local_size = 2
    /\ AllInitialized
    /\ \A p \in Procs : attempt[p] = 1 /\ pc[p] = "idle"
    /\ \A p \in Procs : lastCall[p] = [op |-> "init_process_group", outcome |-> "ok"]

\* The scope names of the keys, and the key of a scope name and a root.
ScopeNames == {"bagua_inter_comm", "bagua_intra_comm", "bagua_global_comm"}

KeyOfScope(scope, root) == scope \o "-" \o ToString(root) \o "-unique_id"

\* Every process is in its first initialization, or has completed it.
FirstInitialization == \A p \in Procs : attempt[p] <= 1

\* Two uses of the store belong to one scope instance.
SameScopeUse(e1, e2) ==
    /\ e1.comm_type = e2.comm_type
    /\ e1.comm_type = "bagua_intra_comm" => NodeOf(e1.rank) = NodeOf(e2.rank)

\* C27: during one initialization of the job, a key "{scope}-{root}-unique_id"
\* is written at most once, and only by the process of global rank root;
\* every other process that uses it reads it; the keys in use are of this
\* form; and uses of one key belong to one scope instance.
C27_KeysWrittenOnceByRoot ==
    FirstInitialization =>
        /\ \A e \in storeOps :
              \E scope \in ScopeNames, root \in Procs :
                  e.key = KeyOfScope(scope, root) /\ e.comm_type = scope
        /\ \A scope \in ScopeNames, root \in Procs :
              \A uses \in {{e \in storeOps : e.key = KeyOfScope(scope, root)}} :
                  /\ Cardinality({e \in uses : e.op = "set"}) <= 1
                  /\ \A e \in uses : (e.op = "set") <=> (e.rank = root)
                  /\ \A e \in uses : (e.op = "get") <=> (e.rank # root)
                  /\ \A e \in uses : e.op = "get" => KeyOfScope(scope, root) \in DOMAIN store
        /\ \A e1 \in storeOps, e2 \in storeOps :
              (e1.key = e2.key) => SameScopeUse(e1, e2)

\* Four processes on two nodes are initialized: rank 2 wrote the key of its
\* node's group and rank 3 read it, and all four used the key of rank 0 for
\* the inter-node scope.
C27_Witness ==
    /\ world_size = 4
    /\ local_size = 2
    /\ FirstInitialization
    /\ AllInitialized
    /\ \E e \in storeOps :
          e.op = "set" /\ e.rank = 2 /\ e.key = "bagua_intra_comm-2-unique_id"
    /\ \E e \in storeOps :
          e.op = "get" /\ e.rank = 3 /\ e.key = "bagua_intra_comm-2-unique_id"
    /\ {e.rank : e \in {x \in storeOps : x.key = "bagua_inter_comm-0-unique_id"}} = Procs

\* The steps a process takes inside init_process_group, in the order it
\* may take them; an exception leads back to "idle".
SetupOrder ==
    {<<"idle", "inter_id">>, <<"inter_id", "inter_comm">>, <<"inter_id", "intra_id">>,
     <<"inter_comm", "intra_id">>, <<"intra_id", "intra_comm">>,
     <<"intra_comm", "global_id">>, <<"global_id", "global_comm">>,
     <<"global_comm", "idle">>,
     <<"inter_id", "idle">>, <<"intra_id", "idle">>, <<"global_id", "idle">>}

\* Process p has used the store for the scope.
UsedStoreFor(p, scope) == \E e \in storeOps : e.rank = p /\ e.comm_type = scope

\* Process p has entered the constructor of the communicator of `by`.
Entered(p, by) == \E j \in joined : j.proc = p /\ j.by = by

\* Process p is a member of the inter-node scope.
IsLeader(p) == p % local_size = 0

\* C28: every process sets up the inter-node, then the intra-node, then the
\* global scope; a process that is not a member of the inter-node scope
\* fetches the inter-node id all the same, which global rank 0 must have
\* published, before it turns to the intra-node scope.
C28_ScopesInFixedOrder ==
    /\ [](\A p \in Procs :
            /\ UsedStoreFor(p, "bagua_intra_comm") =>
                  /\ UsedStoreFor(p, "bagua_inter_comm")
                  /\ IsLeader(p) => Entered(p, "init_bagua_inter_communicator")
            /\ UsedStoreFor(p, "bagua_global_comm") =>
                  /\ UsedStoreFor(p, "bagua_intra_comm")
                  /\ Entered(p, "init_bagua_intra_communicator")
            /\ Initialized(p) => Entered(p, "init_bagua_communicator"))
    /\ [][\A p \in Procs :
            /\ pc'[p] # pc[p] => <<pc[p], pc'[p]>> \in SetupOrder
            /\ (pc[p] = "inter_id" /\ pc'[p] = "intra_id") =>
                  /\ ~IsLeader(p)
                  /\ KeyOfScope("bagua_inter_comm", 0) \in DOMAIN store
                  /\ \E e \in storeOps' :
                        /\ e.rank = p
                        /\ e.op = "get"
                        /\ e.key = KeyOfScope("bagua_inter_comm", 0)
                        /\ e.idstr.text = store[e.key].text
                  /\ ~UsedStoreFor(p, "bagua_intra_comm") \/ attempt[p] > 1
                  /\ joined' = joined
            /\ (UsedStoreFor(p, "bagua_intra_comm")' /\ ~UsedStoreFor(p, "bagua_intra_comm"))
                  => pc[p] = "intra_id"
            /\ (UsedStoreFor(p, "bagua_global_comm")' /\ ~UsedStoreFor(p, "bagua_global_comm"))
                  => pc[p] = "global_id"
         ]_vars

\* Rank 1 of a node of two processes, not a member of the inter-node scope,
\* has read the inter-node id that rank 0 published, and now waits in the
\* constructor of its intra-node communicator; it has not touched the
\* global scope.
C28_Witness ==
    /\ world_size = 2
    /\ local_size = 2
    /\ pc[1] = "intra_comm"
    /\ \E e \in storeOps :
          e.rank = 1 /\ e.op = "get" /\ e.key = "bagua_inter_comm-0-unique_id"
    /\ ~Entered(1, "init_bagua_inter_communicator")
    /\ Entered(1, "init_bagua_intra_communicator")
    /\ ~UsedStoreFor(1, "bagua_global_comm")

\* The member count of the communicator the call names.
MemberCount(comm_name) ==
    CASE comm_name = "intranode" -> local_size
      [] comm_name = "internode" -> world_size \div local_size
      [] comm_name \in {"global", "omitted"} -> world_size

\* The buffer with every element divided by n.
DividedBy(data, n) == [e \in DOMAIN data |-> Rat(data[e][1], data[e][2] * n)]

\* C29: the division that follows an averaging allreduce divides the
\* reduced buffer by the member count of the communicator the call ran on:
\* the local size for the intra-node communicator, world size div local size
\* for the inter-node one, the world size for the global one.
C29_DivisorIsMemberCount ==
    /\ [](\A p \in Procs : \A k \in DOMAIN comm_stream[p] :
            comm_stream[p][k].kind = "divide" =>
                /\ comm_stream[p][k].by = MemberCount(job.comm)
                /\ comm_stream[p][k].by = host[p].comm.nranks)
    /\ [][\A p \in Procs :
            divide_run(p) =>
                \A on \in {Item(p).on} :
                \A before \in {Buffer(p, on).data} :
                    Buffer(p, on)'.data = DividedBy(before, MemberCount(job.comm))
         ]_vars

\* Two nodes of one process each: both ranks have averaged over their
\* intra-node communicator, of one member, and hold what they held, not
\* half of it.
C29_Witness ==
    /\ world_size = 2
    /\ local_size = 1
    /\ job.op = "allreduce"
    /\ job.comm = "intranode"
    /\ job.average = "True"
    /\ \A p \in Procs :
          /\ Returned(p)
          /\ host[p].comm.nranks = 1
          /\ tensor_mem[p][1].data[1] = ValueBeforeCall(p, 1, 1)

\* What the wrapper for one tensor (allreduce or broadcast, with the job's
\* root, average and communicator) leaves in tensor i when the members of
\* p's communicator call it on that tensor alone.
AloneResult(p, i) ==
    LET comm == host[p].comm
        contrib == [r \in 0 .. (comm.nranks - 1) |->
                       ProducedData(MemberOfRank(p, r), job.shape)[i]]
    IN IF job.op \in AllreduceOps
       THEN IF EffectiveAverage(job.average)
            THEN Average(NcclAllreduce(contrib, comm.nranks), comm.nranks)
            ELSE NcclAllreduce(contrib, comm.nranks)
       ELSE NcclBroadcast(contrib, job.root)

\* How many elements the tensors of the job hold together.
RECURSIVE TotalCount(_, _)
TotalCount(shape, i) == IF i = 0 THEN 0 ELSE TotalCount(shape, i - 1) + shape[i]

\* C30: a coalesced wrapper issues one collective, over all the tensors of
\* its list at once, and once it has returned on the members of the
\* communicator each tensor holds what the wrapper for one tensor, called
\* with the same root, average and communicator on that tensor alone,
\* leaves in it.
C30_CoalescedAgreesWithPerTensor ==
    /\ [](\A p \in Procs :
            GroupReturned(p) =>
                /\ \A q \in Group(p) : \A i \in DOMAIN job.shape :
                      tensor_mem[q][i].data = AloneResult(p, i)
                /\ job.op \in CoalescedOps =>
                      \A q \in Group(p) :
                      \A launches \in {{c \in nccl : /\ c.id = host[q].comm.nccl_unique_id
                                                      /\ c.rank = host[q].comm.rank}} :
                          /\ Cardinality(launches) = 1
                          /\ \A c \in launches :
                                Len(c.data) = TotalCount(job.shape, Len(job.shape)))
    /\ [][\A p \in Procs :
            (host[p].pc = "idle" /\ host'[p].pc = "synchronize" /\ job'.op \in CoalescedOps) =>
                Cardinality({k \in DOMAIN comm_stream'[p] :
                    comm_stream'[p][k].kind \in {"broadcast", "allreduce"}}) = 1
         ]_vars

\* Two ranks have summed a list of a tensor of one element and a tensor of
\* two over the global communicator, in one collective of three elements:
\* the last element is the sum of the two ranks' values, as allreduce on the
\* second tensor alone leaves it.
C30_Witness ==
    /\ world_size = 2
    /\ job.op = "allreduce_coalesced"
    /\ job.average = "False"
    /\ job.shape = <<1, 2>>
    /\ GroupReturned(0)
    /\ Group(0) = {0, 1}
    /\ \E c \in nccl : Len(c.data) = 3
    /\ tensor_mem[1][2].data[2] = RAdd(ValueBeforeCall(0, 2, 2), ValueBeforeCall(1, 2, 2))
    /\ tensor_mem[1][2].data = AloneResult(1, 2)

\* The exceptions that end a call of init_process_group before it completes.
InitFailures == {"RuntimeError", "OSError", "TransportError", "NcclInvalidArgument"}

\* The call of init_process_group of process p ends in this step.
InitCompletes(p) ==
    /\ lastCall[p] = [op |-> "init_process_group", outcome |-> "running"]
    /\ lastCall'[p] = [op |-> "init_process_group", outcome |-> "ok"]

InitFails(p) ==
    /\ lastCall'[p] # lastCall[p]
    /\ lastCall'[p].outcome \in InitFailures

\* C31: is_initialized() is false until a call of init_process_group in the
\* process has run to completion and true from then on; a call that an
\* exception leaves, at whatever statement, leaves the global state absent
\* and is_initialized() false, and the next call of init_process_group is
\* not rejected with RepeatedInitializationError.
C31_InitializedIffInitCompleted ==
    /\ [](\A p \in Procs :
            /\ is_initialized(p) <=> Initialized(p)
            /\ attempt[p] = 0 => ~is_initialized(p)
            /\ pc[p] # "idle" => ~is_initialized(p)
            /\ lastCall[p].outcome \in InitFailures => ~is_initialized(p)
            /\ lastCall[p].outcome \in {"ok", "RepeatedInitializationError"}
                  <=> is_initialized(p))
    /\ [][\A p \in Procs :
            /\ (is_initialized(p)' /\ ~is_initialized(p)) <=> InitCompletes(p)
            /\ is_initialized(p) => is_initialized(p)'
            /\ InitFails(p) => (_global_state'[p] = None /\ ~is_initialized(p)')
            /\ (lastCall[p].outcome \in InitFailures /\ init_process_group(p)) =>
                  /\ lastCall'[p].outcome = "running"
                  /\ attempt'[p] = attempt[p] + 1
         ]_vars

\* The first call of init_process_group in process 0 was left by an
\* exception inside BaguaGlobalState.__init__, after the process group and
\* the server had been started; its second call has completed.
C31_Witness ==
    /\ attempt[0] = 2
    /\ dist_initialized[0]
    /\ \E e \in storeOps : e.rank = 0 /\ e.idstr.text = <<0, 0>>
    /\ Initialized(0)
    /\ _global_state[0].stream = <<"Stream", 0, 2>>
    /\ lastCall[0] = [op |-> "init_process_group", outcome |-> "ok"]

\* ------------------------------------------------------------------- C32
CommunicatorsOf(state) ==
    {c \in {state.internode_communicator, state.intranode_communicator,
             state.global_communicator} : c # None}

\* The stream a wrapper running in p enqueues on: comm.cuda_stream.
EnqueuesOn(p) == host[p].comm.cuda_stream

InWrapper(p) == host[p].comm # None /\ host[p].comm.kind = "comm"

\* C32: an initialized process has one communication stream: every
\* communicator of its global state (the inter-node one when there is one,
\* the intra-node one, the global one) is bound to the stream the global
\* state holds, which the constructor of that state created and which is
\* never replaced, and a collective enqueues its work on that stream.
C32_OneCommunicationStream ==
    /\ [](\A p \in Procs :
            /\ Initialized(p) =>
                  /\ _global_state[p].stream = <<"Stream", p, attempt[p]>>
                  /\ _global_state[p].intranode_communicator # None
                  /\ _global_state[p].global_communicator # None
                  /\ \A c \in CommunicatorsOf(_global_state[p]) :
                        c.cuda_stream = _global_state[p].stream
            /\ InWrapper(p) =>
                  /\ Initialized(p)
                  /\ EnqueuesOn(p) = _global_state[p].stream
            /\ self[p] # None =>
                  \A c \in CommunicatorsOf(self[p]) : c.cuda_stream = self[p].stream)
    /\ [][\A p \in Procs :
            /\ Initialized(p) => Initialized(p)' /\ _global_state'[p].stream = _global_state[p].stream
            /\ (self[p] # None /\ self'[p] # None) => self'[p].stream = self[p].stream
            /\ (self[p] # None /\ Initialized(p)') => _global_state'[p].stream = self[p].stream
            /\ comm_stream'[p] # comm_stream[p] /\ Len(comm_stream'[p]) > Len(comm_stream[p]) =>
                  InWrapper(p)' /\ EnqueuesOn(p)' = _global_state[p].stream]_vars

\* Two single-process nodes: rank 1 holds three communicators and has the
\* work of an allreduce on its inter-node communicator pending.
C32_Witness ==
    /\ world_size = 2
    /\ local_size = 1
    /\ Initialized(1)
    /\ Cardinality(CommunicatorsOf(_global_state[1])) = 3
    /\ host[1].comm = _global_state[1].internode_communicator
    /\ \E k \in DOMAIN comm_stream[1] : comm_stream[1][k].kind = "allreduce"
    /\ EnqueuesOn(1) = <<"Stream", 1, 1>>

\* ------------------------------------------------------------------- C33
RECURSIVE TotalAllocated(_)
TotalAllocated(list) ==
    IF list = <<>> THEN 0 ELSE AllocatedCount(Head(list)) + TotalAllocated(Tail(list))

\* The places (group, position) of the returned groups that hold the parameter.
PlacesOf(members, param) ==
    {place \in (1 .. MaxParams) \X (1 .. MaxParams) :
        /\ place[1] \in DOMAIN members
        /\ place[2] \in DOMAIN members[place[1]]
        /\ members[place[1]][place[2]] = param}

\* C33: the grouping of step loses and duplicates nothing.  For every
\* parameter group, each parameter of the list the group held at the call is
\* a member of exactly one group of the list it holds after the call, and
\* once; a returned group is made of such members and of nothing else; and
\* the allocated element counts of the returned groups add up to those of
\* the parameters of the list.
C33_GroupingLosesNothing ==
    [][step =>
       \A g \in DOMAIN optimizer.param_groups :
       \A before \in {ListBefore(g)}, after \in {ListAfter(g)} :
       \A members \in {GroupMembers(before, after, Len(after))} :
          /\ \A k \in DOMAIN before : Cardinality(PlacesOf(members, before[k])) = 1
          /\ Len(Scanned(members, Len(members))) = Len(before)
          /\ \A j \in DOMAIN after :
                /\ Len(members[j]) >= 1
                /\ after[j].ids = ConcatIds(members[j], Len(members[j]))
                /\ AllocatedCount(after[j]) = TotalAllocated(members[j])
          /\ TotalAllocated(after) = TotalAllocated(before)
      ]_vars

\* A step has regrouped one parameter group of three parameters: the second
\* and the third lay in one allocation, the third before the second, and
\* are one fused group now, which follows the first parameter.
C33_Witness ==
    /\ last_step # NoStep
    /\ Len(optimizer.param_groups) = 1
    /\ Len(optimizer.param_groups[1].params) = 2
    /\ optimizer.param_groups[1].params[1].ids = <<1>>
    /\ optimizer.param_groups[1].params[1].storage = "s2"
    /\ optimizer.param_groups[1].params[2].ids = <<3, 2>>
    /\ optimizer.param_groups[1].params[2].storage = "s0"
    /\ optimizer.param_groups[1].params[2].numel = 20

\* ------------------------------------------------------------------- C34
\* C34 as stated: the grouping of step applied to its own output returns
\* that output: the same groups in the same order, none merged with another.
C34_RegroupingIdempotent ==
    [][step =>
       \A g \in DOMAIN optimizer.param_groups :
          fused_params(ListAfter(g)) = ListAfter(g)
      ]_vars

\* What remains of C34: a list without empty parameters is regrouped into a
\* list that a further regrouping returns as it is.
C34_IdempotentWithoutEmpty ==
    [][step =>
       \A g \in DOMAIN optimizer.param_groups :
          (\A k \in DOMAIN ListBefore(g) : AllocatedCount(ListBefore(g)[k]) > 0) =>
              fused_params(ListAfter(g)) = ListAfter(g)
      ]_vars

\* ------------------------------------------------------------------- C35
\* int(s) of a string of the environment.
IntOf(s) == CHOOSE k \in 0 .. (MaxNodes * MaxNproc) : ToString(k) = s

\* The environments the launchers of all nodes of the job give their
\* children: the same command line on every node but for --node_rank.
JobEnvs ==
    {current_env([args EXCEPT !.node_rank = n], l) :
        n \in 0 .. (args.nnodes - 1), l \in 0 .. (args.nproc_per_node - 1)}

\* C35: the child with local rank l that the launcher of node n spawns is
\* given RANK = nproc_per_node * n + l, LOCAL_RANK = l, LOCAL_SIZE =
\* nproc_per_node and WORLD_SIZE = nproc_per_node * nnodes.  So RANK mod
\* LOCAL_SIZE is LOCAL_RANK, LOCAL_SIZE divides WORLD_SIZE, and over the
\* launchers of all nodes the RANK values are pairwise distinct and are
\* the numbers 0 .. WORLD_SIZE - 1.
C35_ChildEnvironment ==
    main # NoLauncher =>
        /\ \A i \in DOMAIN processes :
           \A env \in {processes[i].env}, l \in {i - 1} :
              /\ IntOf(env.RANK) = args.nproc_per_node * args.node_rank + l
              /\ IntOf(env.LOCAL_RANK) = l
              /\ IntOf(env.LOCAL_SIZE) = args.nproc_per_node
              /\ IntOf(env.WORLD_SIZE) = args.nproc_per_node * args.nnodes
              /\ IntOf(env.RANK) % IntOf(env.LOCAL_SIZE) = IntOf(env.LOCAL_RANK)
              /\ IntOf(env.WORLD_SIZE) % IntOf(env.LOCAL_SIZE) = 0
              /\ IntOf(env.RANK) < IntOf(env.WORLD_SIZE)
              /\ env \in JobEnvs
        /\ \A i \in DOMAIN processes, j \in DOMAIN processes :
              i # j => processes[i].env.RANK # processes[j].env.RANK
        /\ Cardinality(JobEnvs) = args.nproc_per_node * args.nnodes
        /\ {IntOf(env.RANK) : env \in JobEnvs} = 0 .. (args.nproc_per_node * args.nnodes - 1)
        /\ \A e1 \in JobEnvs, e2 \in JobEnvs : e1.RANK = e2.RANK => e1 = e2

\* The launcher of the second of two nodes has spawned its two children:
\* the second child has RANK 3 of a WORLD_SIZE of 4, and LOCAL_RANK 1.
C35_Witness ==
    /\ main.pc = "monitor"
    /\ args.nnodes = 2
    /\ args.node_rank = 1
    /\ Len(processes) = 2
    /\ processes[1].env.RANK = "2"
    /\ processes[2].env = [WORLD_SIZE |-> "4", RANK |-> "3", LOCAL_RANK |-> "1", LOCAL_SIZE |-> "2"]

\* ------------------------------------------------------------------- C36
\* The child has ended by itself with a return code other than 0.
Failed(i) == children[i] # Running /\ children[i].code \in ExitCodes \ {0}

Succeeded(i) == children[i] = Exited(0)

AllSpawned == Len(processes) = args.nproc_per_node

\* Every log file the launcher was to open is open, or closed.
LogFiles(state) ==
    /\ Len(subprocess_file_handles) = (IF args.logdir THEN Len(processes) ELSE 0)
    /\ \A k \in DOMAIN subprocess_file_handles :
          subprocess_file_handles[k] = <<state, state>>

LauncherFailed == main.pc = "CalledProcessError"

LauncherReturned == main.pc = "returned"

LauncherEnded == main.pc \in {"CalledProcessError", "returned", "SystemExit"}

\* C36: in the monitoring loop, the pass that finds a child ended with a
\* return code other than 0 calls kill on every spawned child and ends the
\* launcher with CalledProcessError carrying the return code of such a
\* child, and the launcher fails in this way for no other reason; the
\* launcher returns normally only when all its children have ended with
\* return code 0; in both cases all log files it opened are closed.  With
\* the loop polling again and again, a child that ends with a return code
\* other than 0 leads to the end of the launcher, and children that have
\* all ended with 0 lead to its return, unless a signal ends it first.
C36_MonitoringLoop ==
    /\ [](main # NoLauncher =>
            /\ LauncherFailed =>
                  /\ AllSpawned
                  /\ \A i \in DOMAIN processes :
                        processes[i].kill_called /\ children[i] # Running
                  /\ main.returncode = last_return_code
                  /\ main.returncode # None
                  /\ main.returncode.value # 0
                  /\ \E i \in DOMAIN processes :
                        /\ Failed(i)
                        /\ processes[i].returncode = main.returncode
                        /\ children[i].code = main.returncode.value
                  /\ LogFiles("closed")
            /\ LauncherReturned =>
                  /\ AllSpawned
                  /\ \A i \in DOMAIN processes :
                        /\ Succeeded(i)
                        /\ processes[i].returncode = ReturnCode(0)
                        /\ ~processes[i].kill_called
                  /\ last_return_code = None
                  /\ LogFiles("closed")
            /\ main.pc = "monitor" =>
                  \A i \in DOMAIN processes : i \notin alive_processes => Succeeded(i))
    /\ [][/\ (monitor /\ \E i \in alive_processes : Failed(i)) =>
                /\ LauncherFailed'
                /\ \E i \in alive_processes :
                      Failed(i) /\ main'.returncode = ReturnCode(children[i].code)
          /\ (LauncherFailed' /\ ~LauncherFailed) =>
                /\ main.pc = "monitor"
                /\ \E i \in alive_processes : Failed(i)
          /\ (LauncherReturned' /\ ~LauncherReturned) =>
                /\ main.pc = "monitor"
                /\ \A i \in DOMAIN children : Succeeded(i)
                /\ children' = children
          /\ LauncherEnded => UNCHANGED launchVars]_vars
    /\ (main # NoLauncher /\ \E i \in DOMAIN children : Failed(i)) ~>
           (LauncherFailed \/ main.pc = "SystemExit")
    /\ (main # NoLauncher /\ AllSpawned /\ \A i \in DOMAIN children : Succeeded(i)) ~>
           (LauncherReturned \/ main.pc = "SystemExit")

\* Two children with log files: the first has ended with 0, the second
\* with 2; the second was running still when the loop took the first out
\* of alive_processes.  The launcher has called kill on both, has failed
\* with CalledProcessError(returncode=2) and has closed the four files.
C36_Witness ==
    /\ LauncherFailed
    /\ main.returncode = ReturnCode(2)
    /\ args.logdir
    /\ children = <<Exited(0), Exited(2)>>
    /\ alive_processes = {2}
    /\ processes[1].kill_called
    /\ processes[1].returncode = ReturnCode(0)
    /\ processes[2].kill_called
    /\ subprocess_file_handles = <<(<<"closed", "closed">>), (<<"closed", "closed">>)>>

====
